---- MODULE Spec2Model ----
(***************************************************************************)
(* Formulation engine of the soap maker: AutoRecipeGenerator               *)
(* (src/src/main_auto.py) and SoapChemistry                                *)
(* (src/src/chemistry/soap_calculator.py).                                 *)
(*                                                                         *)
(* Python floats are modelled by exact rationals [n, d] in lowest terms.   *)
(* A double carries a relative error of about 1e-16, which can change the  *)
(* result of round(x, k) only when the exact value lies on a rounding tie; *)
(* on a tie the model allows both neighbours, for each rounded value       *)
(* separately, so every outcome a double can give is covered.  An          *)
(* operator that ends in a rounding therefore yields the set of results    *)
(* the call can return.                                                    *)
(* round(x, 2) of a mass is held as an integer number of hundredths,       *)
(* round(x, 1) of a score as an integer number of tenths.                  *)
(***************************************************************************)
EXTENDS Integers, Sequences, FiniteSets, TLC

(***************************************************************************)
(* Bounds of the model                                                     *)
(***************************************************************************)
\* largest number of oils in one selection
MaxSel == 5
\* largest weight (grams) of one entry of a weight mapping
MaxWeight == 3

(***************************************************************************)
(* Exact rational arithmetic                                               *)
(***************************************************************************)
Abs(x) == IF x < 0 THEN -x ELSE x

RECURSIVE GCD(_, _)
GCD(a, b) == IF b = 0 THEN a ELSE GCD(b, a % b)

\* the rational n/d (d # 0) in lowest terms with a positive denominator
Rat(n, d) ==
    LET g == GCD(Abs(n), Abs(d))
        s == IF d < 0 THEN -1 ELSE 1
    IN  [n |-> s * (n \div g), d |-> s * (d \div g)]

Num(k) == [n |-> k, d |-> 1]
Zero == Num(0)

RAdd(a, b) ==
    LET g == GCD(a.d, b.d)
    IN  Rat(a.n * (b.d \div g) + b.n * (a.d \div g), a.d * (b.d \div g))

RNeg(a) == [n |-> -a.n, d |-> a.d]
RSub(a, b) == RAdd(a, RNeg(b))

\* product, cross-cancelled before multiplying
RMul(a, b) ==
    LET g1 == GCD(Abs(a.n), b.d)
        g2 == GCD(Abs(b.n), a.d)
    IN  Rat((a.n \div g1) * (b.n \div g2), (a.d \div g2) * (b.d \div g1))

\* quotient a / b for b # 0
RDiv(a, b) == RMul(a, IF b.n < 0 THEN [n |-> -b.d, d |-> -b.n]
                                 ELSE [n |-> b.d, d |-> b.n])

RLess(a, b) == RSub(a, b).n < 0
RMin(a, b) == IF RLess(b, a) THEN b ELSE a
RMax(a, b) == IF RLess(a, b) THEN b ELSE a

\* Python round(x, k) with scale = 10^k, as integer counts of 1/scale: the
\* nearest multiple off a tie, either neighbour on an exact tie.
Round(x, scale) ==
    LET y == RMul(x, Num(scale))
        q == y.n \div y.d
        r == y.n % y.d
    IN  IF 2 * r < y.d THEN {q}
        ELSE IF 2 * r > y.d THEN {q + 1}
        ELSE {q, q + 1}

Round2(x) == Round(x, 100)
Round1(x) == Round(x, 10)

\* {k: round(v, places) for k, v in d.items()}: the dicts this can give
RoundValues(d, scale) ==
    LET low == [k \in DOMAIN d |-> CHOOSE q \in Round(d[k], scale) :
                                      \A p \in Round(d[k], scale) : q <= p]
        ties == {k \in DOMAIN d : Cardinality(Round(d[k], scale)) = 2}
    IN  {[k \in DOMAIN d |-> IF k \in up THEN low[k] + 1 ELSE low[k]] :
            up \in SUBSET ties}

(***************************************************************************)
(* Python dict and list helpers                                            *)
(***************************************************************************)
EmptyDict == << >>

\* d[k] = v
Put(d, k, v) == [x \in (DOMAIN d) \cup {k} |-> IF x = k THEN v ELSE d[x]]

\* for k in keys: d[k] = v
RECURSIVE PutAll(_, _, _)
PutAll(d, keys, v) ==
    IF keys = << >> THEN d
    ELSE PutAll(Put(d, Head(keys), v), Tail(keys), v)

\* [x for x in s if x in members]
RECURSIVE Filter(_, _)
Filter(s, members) ==
    IF s = << >> THEN << >>
    ELSE IF Head(s) \in members THEN << Head(s) >> \o Filter(Tail(s), members)
         ELSE Filter(Tail(s), members)

Range(s) == {s[i] : i \in DOMAIN s}

\* sum(d.values()) for a dict of rationals
RECURSIVE RSum(_)
RSum(d) ==
    IF DOMAIN d = {} THEN Zero
    ELSE LET k == CHOOSE x \in DOMAIN d : TRUE
         IN  RAdd(d[k], RSum([x \in (DOMAIN d) \ {k} |-> d[x]]))

\* sum(d.values()) for a dict of integers
RECURSIVE ISum(_)
ISum(d) ==
    IF DOMAIN d = {} THEN 0
    ELSE LET k == CHOOSE x \in DOMAIN d : TRUE
         IN  d[k] + ISum([x \in (DOMAIN d) \ {k} |-> d[x]])

(***************************************************************************)
(* AutoRecipeGenerator (src/src/main_auto.py)                              *)
(***************************************************************************)
OIL_CATEGORIES ==
    [base |-> {"Olive Oil", "Sunflower Oil", "Sweet Almond Oil", "Rice Bran Oil",
               "Canola Oil", "Apricot Kernel Oil", "Avocado Oil", "Hazelnut Oil",
               "Macadamia Nut Oil"},
     hard |-> {"Coconut Oil", "Palm Oil", "Cocoa Butter", "Shea Butter",
               "Babassu Oil", "Beeswax", "Mango Butter"},
     super_fat |-> {"Castor Oil", "Jojoba Oil"},
     conditioning |-> {"Beef Tallow", "Lard", "Grapeseed Oil", "Hemp Seed Oil",
                       "Safflower Oil"},
     specialty |-> {"Argan Oil", "Neem Oil"}]

\* p percent as a rational
Pct(p) == Rat(p, 100)

\* d.get(k, default)
Get(d, k, default) == IF k \in DOMAIN d THEN d[k] ELSE default

\* for k in keys: d[k] = d.get(k, 0) + v
RECURSIVE AddAll(_, _, _)
AddAll(d, keys, v) ==
    IF keys = << >> THEN d
    ELSE AddAll(Put(d, Head(keys), RAdd(Get(d, Head(keys), Zero), v)),
                Tail(keys), v)

\* {oil: round(weight, 2) for oil, weight in recipe.items()}
RoundRecipe(recipe) == RoundValues(recipe, 100)

\* AllocateCategory without "remaining_oz -= ..."
AllocateCategoryKeepRemaining(st, members, total_oz, pct, capped) ==
    IF members = << >> THEN st
    ELSE LET want == RMul(total_oz, Pct(pct))
             cat_total == IF capped THEN RMin(want, st.remaining) ELSE want
             per_oil == RDiv(cat_total, Num(Len(members)))
         IN  [recipe |-> PutAll(st.recipe, members, per_oil),
              remaining |-> st.remaining]

\* AllocateCategory without the cap min(..., remaining_oz)
AllocateCategoryUncapped(st, members, total_oz, pct, capped) ==
    IF members = << >> THEN st
    ELSE LET cat_total == RMul(total_oz, Pct(pct))
             per_oil == RDiv(cat_total, Num(Len(members)))
         IN  [recipe |-> PutAll(st.recipe, members, per_oil),
              remaining |-> RSub(st.remaining, cat_total)]

\* One category of the default schedule (lines 106-143): if the category has
\* selected members, its mass is split equally among them and taken off the
\* remaining mass.  st = [recipe, remaining]; the first category is not capped.
AllocateCategory(st, members, total_oz, pct, capped) ==
    IF members = << >> THEN st
    ELSE LET want == RMul(total_oz, Pct(pct))
             cat_total == IF capped THEN RMin(want, st.remaining) ELSE want
             per_oil == RDiv(cat_total, Num(Len(members)))
         IN  [recipe |-> PutAll(st.recipe, members, per_oil),
              remaining |-> RSub(st.remaining, cat_total)]

\* lines 145-149: spread what is left over all oils of the recipe
DistributeRemaining(st) ==
    IF RLess(Rat(1, 100), st.remaining) /\ DOMAIN st.recipe # {}
    THEN LET per_oil == RDiv(st.remaining, Num(Cardinality(DOMAIN st.recipe)))
         IN  [o \in DOMAIN st.recipe |-> RAdd(st.recipe[o], per_oil)]
    ELSE st.recipe

\* lines 100-149: four or more oils, no targets
ComprehensiveRecipe(total_oz, selected_base, selected_hard, selected_super, selected_cond, selected_specialty) ==
    LET s0 == [recipe |-> EmptyDict, remaining |-> total_oz]
        s1 == AllocateCategory(s0, selected_base, total_oz, 45, FALSE)
        s2 == AllocateCategory(s1, selected_hard, total_oz, 30, TRUE)
        s3 == AllocateCategory(s2, selected_cond, total_oz, 18, TRUE)
        s4 == AllocateCategory(s3, selected_super, total_oz, 7, TRUE)
        s5 == AllocateCategory(s4, selected_specialty, total_oz, 5, TRUE)
    IN  DistributeRemaining(s5)

\* SingleOilRecipe giving the batch size in pounds, not the converted ounces
SingleOilRecipePounds(selected_oils, total_oz) ==
    Put(EmptyDict, selected_oils[1], RDiv(total_oz, Num(16)))

\* lines 74-76: single oil - use 100%
SingleOilRecipe(selected_oils, total_oz) ==
    Put(EmptyDict, selected_oils[1], total_oz)

\* TwoOilRecipe giving 70/30 in selection order
TwoOilRecipeInOrder(selected_oils, total_oz, selected_base, selected_hard) ==
    IF selected_base # << >> /\ selected_hard # << >>
    THEN Put(Put(EmptyDict, selected_oils[1], RMul(total_oz, Pct(70))),
             selected_oils[2], RMul(total_oz, Pct(30)))
    ELSE Put(Put(EmptyDict, selected_oils[1], RMul(total_oz, Pct(60))),
             selected_oils[2], RMul(total_oz, Pct(40)))

\* lines 78-85: two oils - 70/30 split favoring base oils
TwoOilRecipe(selected_oils, total_oz, selected_base, selected_hard) ==
    IF selected_base # << >> /\ selected_hard # << >>
    THEN Put(Put(EmptyDict, selected_base[1], RMul(total_oz, Pct(70))),
             selected_hard[1], RMul(total_oz, Pct(30)))
    ELSE Put(Put(EmptyDict, selected_oils[1], RMul(total_oz, Pct(60))),
             selected_oils[2], RMul(total_oz, Pct(40)))

\* ThreeOilRecipe taking the last selected oil as the "other" one
ThreeOilRecipeLastIsOther(selected_oils, total_oz, selected_base, selected_hard) ==
    IF selected_base # << >> /\ selected_hard # << >>
    THEN Put(Put(Put(EmptyDict, selected_base[1], RMul(total_oz, Pct(50))),
                 selected_hard[1], RMul(total_oz, Pct(30))),
             selected_oils[3], RMul(total_oz, Pct(20)))
    ELSE PutAll(EmptyDict, selected_oils, RDiv(total_oz, Num(3)))

\* lines 87-98: three oils - balanced approach
ThreeOilRecipe(selected_oils, total_oz, selected_base, selected_hard) ==
    IF selected_base # << >> /\ selected_hard # << >>
    THEN LET other == Filter(selected_oils,
                             Range(selected_oils)
                               \ {selected_base[1], selected_hard[1]})[1]
         IN  Put(Put(Put(EmptyDict, selected_base[1], RMul(total_oz, Pct(50))),
                     selected_hard[1], RMul(total_oz, Pct(30))),
                 other, RMul(total_oz, Pct(20)))
    ELSE PutAll(EmptyDict, selected_oils, RDiv(total_oz, Num(3)))

\* lines 63-149: the default balanced approach, before the final rounding
BalancedRecipe(selected_oils, total_oz) ==
    LET selected_base == Filter(selected_oils, OIL_CATEGORIES.base)
        selected_hard == Filter(selected_oils, OIL_CATEGORIES.hard)
        selected_super == Filter(selected_oils, OIL_CATEGORIES.super_fat)
        selected_cond == Filter(selected_oils, OIL_CATEGORIES.conditioning)
        selected_specialty == Filter(selected_oils, OIL_CATEGORIES.specialty)
    IN  IF Len(selected_oils) = 1
        THEN SingleOilRecipe(selected_oils, total_oz)
        ELSE IF Len(selected_oils) = 2
        THEN TwoOilRecipe(selected_oils, total_oz, selected_base, selected_hard)
        ELSE IF Len(selected_oils) = 3
        THEN ThreeOilRecipe(selected_oils, total_oz, selected_base,
                            selected_hard)
        ELSE ComprehensiveRecipe(total_oz, selected_base, selected_hard,
                                 selected_super, selected_cond,
                                 selected_specialty)

\* lines 185-189: a target value normalised over the property's range
Factor(target, range_min, range_span) == Rat(target - range_min, range_span)

\* line 204
BasePct(has_base, conditioning_factor) ==
    IF has_base THEN RAdd(Pct(30), RMul(conditioning_factor, Pct(30))) ELSE Zero

\* CoconutPct driven by the cleansing factor alone
CoconutPctCleansingOnly(has_coconut, cleansing_factor, bubbly_factor) ==
    IF has_coconut THEN RAdd(Pct(15), RMul(cleansing_factor, Pct(35))) ELSE Zero

\* lines 209-210
CoconutPct(has_coconut, cleansing_factor, bubbly_factor) ==
    LET coconut_need == RMax(cleansing_factor, bubbly_factor)
    IN  IF has_coconut THEN RAdd(Pct(15), RMul(coconut_need, Pct(35))) ELSE Zero

\* line 214
HardPct(has_other_hard, hardness_factor) ==
    IF has_other_hard THEN RAdd(Pct(10), RMul(hardness_factor, Pct(15))) ELSE Zero

\* line 218
AnimalPct(has_animal, creamy_factor) ==
    IF has_animal THEN RAdd(Pct(10), RMul(creamy_factor, Pct(20))) ELSE Zero

\* line 222
CastorPct(has_castor, creamy_factor) ==
    IF has_castor THEN RAdd(Pct(5), RMul(creamy_factor, Pct(5))) ELSE Zero

\* line 226
SpecialtyPct(has_specialty, conditioning_factor) ==
    IF has_specialty THEN RAdd(Pct(3), RMul(conditioning_factor, Pct(2))) ELSE Zero

\* lines 171-226: the six category percentages as first computed
RawPercentages(selected_oils, target_props) ==
    LET selected_base == Filter(selected_oils, OIL_CATEGORIES.base)
        selected_hard == Filter(selected_oils, OIL_CATEGORIES.hard)
        selected_super == Filter(selected_oils, OIL_CATEGORIES.super_fat)
        selected_cond == Filter(selected_oils, OIL_CATEGORIES.conditioning)
        selected_specialty == Filter(selected_oils, OIL_CATEGORIES.specialty)
        hardness_factor == Factor(Get(target_props, "hardness", 40), 29, 25)
        cleansing_factor == Factor(Get(target_props, "cleansing", 15), 12, 10)
        conditioning_factor == Factor(Get(target_props, "conditioning", 55), 44, 25)
        bubbly_factor == Factor(Get(target_props, "bubbly", 25), 14, 32)
        creamy_factor == Factor(Get(target_props, "creamy", 30), 16, 32)
        has_base == Len(selected_base) > 0
        has_coconut == "Coconut Oil" \in Range(selected_hard)
        has_other_hard == Len(Filter(selected_hard,
                                     Range(selected_hard) \ {"Coconut Oil"})) > 0
        has_animal == Len(selected_cond) > 0
        has_castor == Len(selected_super) > 0
        has_specialty == Len(selected_specialty) > 0
    IN  [base |-> BasePct(has_base, conditioning_factor),
         coconut |-> CoconutPct(has_coconut, cleansing_factor, bubbly_factor),
         hard |-> HardPct(has_other_hard, hardness_factor),
         animal |-> AnimalPct(has_animal, creamy_factor),
         castor |-> CastorPct(has_castor, creamy_factor),
         specialty |-> SpecialtyPct(has_specialty, conditioning_factor)]

\* Compensate with the test on has_base inverted
CompensateWhenBase(pct, has_base, has_coconut, has_animal, has_other_hard) ==
    IF has_base
    THEN [pct EXCEPT
            !.coconut = IF has_coconut THEN RMul(@, Rat(6, 10)) ELSE @,
            !.animal = IF has_animal THEN RMul(@, Rat(18, 10)) ELSE @,
            !.hard = IF has_other_hard THEN RMul(@, Rat(15, 10)) ELSE @]
    ELSE pct

\* lines 228-238: without base oils, less coconut and more fats and hard oils
Compensate(pct, has_base, has_coconut, has_animal, has_other_hard) ==
    IF ~has_base
    THEN [pct EXCEPT
            !.coconut = IF has_coconut THEN RMul(@, Rat(6, 10)) ELSE @,
            !.animal = IF has_animal THEN RMul(@, Rat(18, 10)) ELSE @,
            !.hard = IF has_other_hard THEN RMul(@, Rat(15, 10)) ELSE @]
    ELSE pct

\* lines 240-248: normalize to 100%
Normalize(pct) ==
    LET total_pct == RAdd(pct.base, RAdd(pct.coconut, RAdd(pct.hard,
                     RAdd(pct.animal, RAdd(pct.castor, pct.specialty)))))
    IN  IF RLess(Zero, total_pct)
        THEN [c \in DOMAIN pct |-> RDiv(pct[c], total_pct)]
        ELSE pct

\* lines 250-292: each category's share of total_oz, split equally
AllocateShares(selected_oils, total_oz, pct) ==
    LET selected_base == Filter(selected_oils, OIL_CATEGORIES.base)
        selected_hard0 == Filter(selected_oils, OIL_CATEGORIES.hard)
        selected_super == Filter(selected_oils, OIL_CATEGORIES.super_fat)
        selected_cond == Filter(selected_oils, OIL_CATEGORIES.conditioning)
        selected_specialty == Filter(selected_oils, OIL_CATEGORIES.specialty)
        has_coconut == "Coconut Oil" \in Range(selected_hard0)
        selected_hard == IF has_coconut
                         THEN Filter(selected_hard0,
                                     Range(selected_hard0) \ {"Coconut Oil"})
                         ELSE selected_hard0
        r1 == IF selected_base # << >>
              THEN PutAll(EmptyDict, selected_base,
                          RDiv(RMul(total_oz, pct.base), Num(Len(selected_base))))
              ELSE EmptyDict
        r2 == IF has_coconut
              THEN Put(r1, "Coconut Oil", RMul(total_oz, pct.coconut))
              ELSE r1
        r3 == IF selected_hard # << >>
              THEN AddAll(r2, selected_hard,
                          RDiv(RMul(total_oz, pct.hard), Num(Len(selected_hard))))
              ELSE r2
        r4 == IF selected_cond # << >>
              THEN AddAll(r3, selected_cond,
                          RDiv(RMul(total_oz, pct.animal), Num(Len(selected_cond))))
              ELSE r3
        r5 == IF selected_super # << >>
              THEN AddAll(r4, selected_super,
                          RDiv(RMul(total_oz, pct.castor), Num(Len(selected_super))))
              ELSE r4
    IN  IF selected_specialty # << >>
        THEN AddAll(r5, selected_specialty,
                    RDiv(RMul(total_oz, pct.specialty),
                         Num(Len(selected_specialty))))
        ELSE r5

\* lines 294-298: normalize to exact total
ScaleToTotal(recipe, total_oz) ==
    LET current_total == RSum(recipe)
    IN  IF RLess(Zero, current_total)
        THEN LET factor == RDiv(total_oz, current_total)
             IN  [o \in DOMAIN recipe |-> RMul(recipe[o], factor)]
        ELSE recipe

\* lines 228-238 applied to the percentages of a selection
AdjustedPercentages(selected_oils, target_props) ==
    LET selected_hard == Filter(selected_oils, OIL_CATEGORIES.hard)
    IN  Compensate(RawPercentages(selected_oils, target_props),
                   Filter(selected_oils, OIL_CATEGORIES.base) # << >>,
                   "Coconut Oil" \in Range(selected_hard),
                   Filter(selected_oils, OIL_CATEGORIES.conditioning) # << >>,
                   Range(selected_hard) \ {"Coconut Oil"} # {})

\* the category percentages of generate_targeted_recipe at three points: as
\* first computed (line 226), after the compensation (line 238) and after
\* the normalization (line 248)
TargetedPercentages(selected_oils, target_props) ==
    [raw |-> RawPercentages(selected_oils, target_props),
     adjusted |-> AdjustedPercentages(selected_oils, target_props),
     normalized |-> Normalize(AdjustedPercentages(selected_oils, target_props))]

\* lines 155-298, before the final rounding
TargetedRecipe(selected_oils, total_oz, target_props) ==
    ScaleToTotal(
        AllocateShares(selected_oils, total_oz,
                       TargetedPercentages(selected_oils, target_props).normalized),
        total_oz)

\* AutoRecipeGenerator.generate_targeted_recipe
generate_targeted_recipe(selected_oils, total_oz, target_props) ==
    RoundRecipe(TargetedRecipe(selected_oils, total_oz, target_props))

\* line 57: convert pounds to ounces
TotalOz(total_weight_lbs) == RMul(total_weight_lbs, Num(16))

\* the outcomes of a call: a returned value or a raised exception
Returned(values) == {[raised |-> FALSE, value |-> v] : v \in values}
Raised(exception) == {[raised |-> TRUE, value |-> exception]}

\* generate_recipe reading selected_oils[0] before the test for an empty list
generate_recipe_IndexFirst(selected_oils, total_weight_lbs, target_props) ==
    IF selected_oils = << >> THEN Raised("IndexError")
    ELSE LET total_oz == TotalOz(total_weight_lbs)
         IN  IF DOMAIN target_props # {}
             THEN Returned(generate_targeted_recipe(selected_oils, total_oz,
                                                    target_props))
             ELSE Returned(RoundRecipe(BalancedRecipe(selected_oils, total_oz)))

\* AutoRecipeGenerator.generate_recipe: the outcomes of the call, a returned
\* dict holding hundredths of an ounce.  No statement of it raises for a list
\* of names.
generate_recipe(selected_oils, total_weight_lbs, target_props) ==
    IF selected_oils = << >> THEN Returned({EmptyDict})
    ELSE LET total_oz == TotalOz(total_weight_lbs)
         IN  IF DOMAIN target_props # {}
             THEN Returned(generate_targeted_recipe(selected_oils, total_oz,
                                                    target_props))
             ELSE Returned(RoundRecipe(BalancedRecipe(selected_oils, total_oz)))

(***************************************************************************)
(* SoapChemistry (src/src/chemistry/soap_calculator.py)                    *)
(***************************************************************************)
\* self.oils_db as loaded by __init__: the entries of three oils
oils_db ==
    [o \in {"Olive Oil", "Coconut Oil", "Palm Oil"} |->
        IF o = "Olive Oil"
        THEN [sap_naoh |-> Rat(134, 1000), sap_koh |-> Rat(188, 1000),
              properties |-> [hardness |-> 17, cleansing |-> 0,
                              conditioning |-> 82, bubbly |-> 0, creamy |-> 17,
                              iodine |-> 85, ins |-> 105],
              fatty_acids |-> [lauric |-> 0, myristic |-> 0, palmitic |-> 14,
                               stearic |-> 3, ricinoleic |-> 0, oleic |-> 69,
                               linoleic |-> 12, linolenic |-> 1]]
        ELSE IF o = "Coconut Oil"
        THEN [sap_naoh |-> Rat(183, 1000), sap_koh |-> Rat(257, 1000),
              properties |-> [hardness |-> 79, cleansing |-> 67,
                              conditioning |-> 10, bubbly |-> 67, creamy |-> 12,
                              iodine |-> 10, ins |-> 258],
              fatty_acids |-> [lauric |-> 48, myristic |-> 19, palmitic |-> 9,
                               stearic |-> 3, ricinoleic |-> 0, oleic |-> 8,
                               linoleic |-> 2, linolenic |-> 0]]
        ELSE [sap_naoh |-> Rat(142, 1000), sap_koh |-> Rat(199, 1000),
              properties |-> [hardness |-> 50, cleansing |-> 1,
                              conditioning |-> 49, bubbly |-> 1, creamy |-> 49,
                              iodine |-> 53, ins |-> 145],
              fatty_acids |-> [lauric |-> 0, myristic |-> 1, palmitic |-> 44,
                               stearic |-> 5, ricinoleic |-> 0, oleic |-> 39,
                               linoleic |-> 10, linolenic |-> 0]]]

\* self.modifiers_db as loaded by __init__: the entries of four modifiers.
\* An entry may lack typical_usage_percent, usage_rate_type and
\* lye_adjustment_factor, which the code reads with defaults or tests for.
modifiers_db ==
    [m \in {"Citric Acid", "Sodium Lactate", "Sugar", "Kaolin Clay"} |->
        IF m = "Citric Acid"
        THEN [name |-> m, typical_usage_percent |-> Num(1),
              usage_rate_type |-> "percent_of_oils",
              lye_adjustment_factor |-> Rat(6, 10)]
        ELSE IF m = "Sodium Lactate"
        THEN [name |-> m, typical_usage_percent |-> Num(3),
              usage_rate_type |-> "percent_of_oils"]
        ELSE IF m = "Sugar"
        THEN [name |-> m, typical_usage_percent |-> Rat(3, 2),
              usage_rate_type |-> "tablespoons_per_pound"]
        ELSE [name |-> m]]

\* the keys of the property accumulators (lines 102-110)
PropertyNames ==
    {"hardness", "cleansing", "conditioning", "bubbly", "creamy", "iodine", "ins"}

\* Percentage taking the weights for percentages of 100
PercentageOfHundred(weight, total_weight) == Rat(weight, 100)

\* line 117
Percentage(weight, total_weight) == Rat(weight, total_weight)

\* lines 113-121: the loop over oil_weights.items(), names being the keys
\* not yet visited
RECURSIVE AccumulateProperties(_, _, _, _)
AccumulateProperties(properties, oil_weights, names, total_weight) ==
    IF names = {} THEN properties
    ELSE LET oil_name == CHOOSE x \in names : TRUE
             rest == names \ {oil_name}
         IN  IF oil_name \notin DOMAIN oils_db
             THEN AccumulateProperties(properties, oil_weights, rest, total_weight)
             ELSE LET percentage == Percentage(oil_weights[oil_name],
                                               total_weight)
                      oil_props == oils_db[oil_name].properties
                  IN  AccumulateProperties(
                          [prop \in DOMAIN properties |->
                              RAdd(properties[prop],
                                   RMul(Num(oil_props[prop]), percentage))],
                          oil_weights, rest, total_weight)

\* calculate_soap_properties without lines 98-99: the division of line 117
\* raises for a known oil when the weights sum to zero
calculate_soap_properties_NoZeroGuard(oil_weights) ==
    LET total_weight == ISum(oil_weights)
    IN  IF total_weight = 0 /\ DOMAIN oil_weights \cap DOMAIN oils_db # {}
        THEN Raised("ZeroDivisionError")
        ELSE Returned(RoundValues(
                 AccumulateProperties([prop \in PropertyNames |-> Zero],
                                      oil_weights, DOMAIN oil_weights,
                                      total_weight), 10))

\* SoapChemistry.calculate_soap_properties; scores in tenths
calculate_soap_properties(oil_weights) ==
    LET total_weight == ISum(oil_weights)
    IN  IF total_weight = 0 THEN Returned({EmptyDict})
        ELSE Returned(RoundValues(
                 AccumulateProperties([prop \in PropertyNames |-> Zero],
                                      oil_weights, DOMAIN oil_weights,
                                      total_weight), 10))

\* SapKey taking sap_koh only for 'KOH'
SapKeyOnlyKOH(lye_type) == IF lye_type = "KOH" THEN "sap_koh" ELSE "sap_naoh"

\* line 46: the database field holding the saponification value
SapKey(lye_type) == IF lye_type = "NaOH" THEN "sap_naoh" ELSE "sap_koh"

\* lines 48-53: total_lye += weight * sap_value over the items of a mapping
\* of known oils, names being the keys not yet visited
RECURSIVE TotalLye(_, _, _)
TotalLye(oil_weights, names, sap_key) ==
    IF names = {} THEN Zero
    ELSE LET oil_name == CHOOSE x \in names : TRUE
             sap_value == oils_db[oil_name][sap_key]
         IN  RAdd(RMul(Num(oil_weights[oil_name]), sap_value),
                  TotalLye(oil_weights, names \ {oil_name}, sap_key))

\* line 56: the factor (1 - superfat_percent / 100)
SuperfatFactor(superfat_percent) ==
    RSub(Num(1), RDiv(superfat_percent, Num(100)))

\* LyeAdjustment reading the factor with modifier.get(..., 1.0)
RECURSIVE LyeAdjustmentDefaultFactor(_, _)
LyeAdjustmentDefaultFactor(modifiers, names) ==
    IF names = {} THEN Zero
    ELSE LET modifier_name == CHOOSE x \in names : TRUE
             amount == modifiers[modifier_name]
             rest == LyeAdjustmentDefaultFactor(modifiers,
                                                names \ {modifier_name})
         IN  IF modifier_name \in DOMAIN modifiers_db
             THEN RAdd(RMul(amount, Get(modifiers_db[modifier_name],
                                        "lye_adjustment_factor", Num(1))),
                       rest)
             ELSE rest

\* lines 59-66: the lye adjustment for the modifiers, names being the keys
\* not yet visited; modifiers is the empty dict for None
RECURSIVE LyeAdjustment(_, _)
LyeAdjustment(modifiers, names) ==
    IF names = {} THEN Zero
    ELSE LET modifier_name == CHOOSE x \in names : TRUE
             amount == modifiers[modifier_name]
             rest == LyeAdjustment(modifiers, names \ {modifier_name})
         IN  IF modifier_name \in DOMAIN modifiers_db
                /\ "lye_adjustment_factor"
                      \in DOMAIN modifiers_db[modifier_name]
             THEN RAdd(RMul(amount,
                            modifiers_db[modifier_name].lye_adjustment_factor),
                       rest)
             ELSE rest

\* calculate_lye_amount with "total_lye -= superfat_percent / 100" at line 56
calculate_lye_amount_SuperfatSubtracted(oil_weights, superfat_percent, modifiers, lye_type) ==
    IF \E oil_name \in DOMAIN oil_weights : oil_name \notin DOMAIN oils_db
    THEN Raised("ValueError")
    ELSE LET total_lye == RSub(TotalLye(oil_weights, DOMAIN oil_weights,
                                        SapKey(lye_type)),
                               RDiv(superfat_percent, Num(100)))
             lye_adjustment == LyeAdjustment(modifiers, DOMAIN modifiers)
         IN  Returned({<< l, a >> : l \in Round2(total_lye),
                                    a \in Round2(lye_adjustment)})

\* calculate_lye_amount with "continue" in place of the raise of line 50
calculate_lye_amount_SkipUnknown(oil_weights, superfat_percent, modifiers, lye_type) ==
    LET known == DOMAIN oil_weights \cap DOMAIN oils_db
        total_lye == RMul(TotalLye(oil_weights, known, SapKey(lye_type)),
                          SuperfatFactor(superfat_percent))
        lye_adjustment == LyeAdjustment(modifiers, DOMAIN modifiers)
    IN  Returned({<< l, a >> : l \in Round2(total_lye),
                               a \in Round2(lye_adjustment)})

\* SoapChemistry.calculate_lye_amount: the pair (lye, adjustment) in
\* hundredths of a gram, or the ValueError of line 50
calculate_lye_amount(oil_weights, superfat_percent, modifiers, lye_type) ==
    IF \E oil_name \in DOMAIN oil_weights : oil_name \notin DOMAIN oils_db
    THEN Raised("ValueError")
    ELSE LET total_lye == RMul(TotalLye(oil_weights, DOMAIN oil_weights,
                                        SapKey(lye_type)),
                               SuperfatFactor(superfat_percent))
             lye_adjustment == LyeAdjustment(modifiers, DOMAIN modifiers)
         IN  Returned({<< l, a >> : l \in Round2(total_lye),
                                    a \in Round2(lye_adjustment)})

\* calculate_water_amount taking the concentration for a share of the water
calculate_water_amount_ShareOfWater(lye_weight, lye_concentration) ==
    IF lye_concentration = Zero THEN Raised("ZeroDivisionError")
    ELSE Returned(Round2(RDiv(RMul(lye_weight, Num(100)),
                              lye_concentration)))

\* SoapChemistry.calculate_water_amount, in hundredths of a gram; the
\* division by a concentration of 0 raises
calculate_water_amount(lye_weight, lye_concentration) ==
    IF lye_concentration = Zero THEN Raised("ZeroDivisionError")
    ELSE Returned(Round2(RDiv(RMul(lye_weight,
                                   RSub(Num(100), lye_concentration)),
                              lye_concentration)))

\* the keys of the fatty acid accumulators (lines 140-149)
FattyAcidNames ==
    {"lauric", "myristic", "palmitic", "stearic", "ricinoleic", "oleic",
     "linoleic", "linolenic"}

\* lines 151-159: the loop over oil_weights.items(), names being the keys
\* not yet visited
RECURSIVE AccumulateFattyAcids(_, _, _, _)
AccumulateFattyAcids(fatty_acids, oil_weights, names, total_weight) ==
    IF names = {} THEN fatty_acids
    ELSE LET oil_name == CHOOSE x \in names : TRUE
             rest == names \ {oil_name}
         IN  IF oil_name \notin DOMAIN oils_db
             THEN AccumulateFattyAcids(fatty_acids, oil_weights, rest,
                                       total_weight)
             ELSE LET percentage == Percentage(oil_weights[oil_name],
                                               total_weight)
                      oil_fa == oils_db[oil_name].fatty_acids
                  IN  AccumulateFattyAcids(
                          [fa \in DOMAIN fatty_acids |->
                              RAdd(fatty_acids[fa],
                                   RMul(Num(oil_fa[fa]), percentage))],
                          oil_weights, rest, total_weight)

\* SoapChemistry.calculate_fatty_acid_profile; percentages in tenths
calculate_fatty_acid_profile(oil_weights) ==
    LET total_weight == ISum(oil_weights)
    IN  IF total_weight = 0 THEN Returned({EmptyDict})
        ELSE Returned(RoundValues(
                 AccumulateFattyAcids([fa \in FattyAcidNames |-> Zero],
                                      oil_weights, DOMAIN oil_weights,
                                      total_weight), 10))

\* SoapChemistry.calculate_fragrance_amount, in hundredths of a gram
calculate_fragrance_amount(total_oil_weight, fragrance_percent) ==
    Returned(Round2(RDiv(RMul(total_oil_weight, fragrance_percent),
                         Num(100))))

\* calculate_modifier_amount without the test "usage_percent is None": the
\* typical usage replaces a percentage that was given
calculate_modifier_amount_AlwaysTypical(modifier_name, total_oil_weight, usage_percent) ==
    IF modifier_name \notin DOMAIN modifiers_db THEN Returned({Zero})
    ELSE LET modifier == modifiers_db[modifier_name]
             percent == Get(modifier, "typical_usage_percent", Num(1))
             usage_type == Get(modifier, "usage_rate_type", "percent_of_oils")
         IN  IF usage_type = "percent_of_oils"
             THEN Returned({Rat(q, 100) :
                              q \in Round2(RDiv(RMul(total_oil_weight, percent),
                                                Num(100)))})
             ELSE Returned({percent})

\* SoapChemistry.calculate_modifier_amount, a rational number of grams or of
\* the modifier's own unit; usage_percent is << >> for None and << p >> for
\* the percentage p
calculate_modifier_amount(modifier_name, total_oil_weight, usage_percent) ==
    IF modifier_name \notin DOMAIN modifiers_db THEN Returned({Zero})
    ELSE LET modifier == modifiers_db[modifier_name]
             percent == IF usage_percent = << >>
                        THEN Get(modifier, "typical_usage_percent", Num(1))
                        ELSE usage_percent[1]
             usage_type == Get(modifier, "usage_rate_type", "percent_of_oils")
         IN  IF usage_type = "percent_of_oils"
             THEN Returned({Rat(q, 100) :
                              q \in Round2(RDiv(RMul(total_oil_weight, percent),
                                                Num(100)))})
             ELSE Returned({percent})

\* lines 240-251: the boost of each modifier on each property
modifier_effects ==
    [m \in {"Sugar", "Honey", "Silk Amino Acids", "Sodium Lactate",
            "Citric Acid", "Colloidal Oatmeal", "Tussah Silk Fibers",
            "Kaolin Clay", "Bentonite Clay", "Vitamin E Oil"} |->
        CASE m = "Sugar" -> [bubbly |-> 3, conditioning |-> 1]
          [] m = "Honey" -> [bubbly |-> 2, conditioning |-> 2, creamy |-> 1]
          [] m = "Silk Amino Acids" -> [creamy |-> 3, conditioning |-> 2]
          [] m = "Sodium Lactate" -> [hardness |-> 2]
          [] m = "Citric Acid" -> [hardness |-> 1, conditioning |-> 1]
          [] m = "Colloidal Oatmeal" -> [conditioning |-> 2]
          [] m = "Tussah Silk Fibers" -> [creamy |-> 2]
          [] m = "Kaolin Clay" -> [creamy |-> 1, hardness |-> 1]
          [] m = "Bentonite Clay" -> [creamy |-> 2]
          [] m = "Vitamin E Oil" -> [conditioning |-> 1]]

\* line 258 for every property of effects present in adjusted_props: scores
\* are held in tenths, so a boost adds ten times its value
Boost(adjusted_props, effects) ==
    [prop \in DOMAIN adjusted_props |->
        IF prop \in DOMAIN effects
        THEN adjusted_props[prop] + 10 * effects[prop]
        ELSE adjusted_props[prop]]

\* lines 253-258: the loop over modifiers.items(), names being the keys not
\* yet visited
RECURSIVE ApplyEffects(_, _, _)
ApplyEffects(adjusted_props, modifiers, names) ==
    IF names = {} THEN adjusted_props
    ELSE LET modifier_name == CHOOSE x \in names : TRUE
             amount == modifiers[modifier_name]
             rest == names \ {modifier_name}
         IN  IF modifier_name \in DOMAIN modifier_effects
                /\ RLess(Zero, amount)
             THEN ApplyEffects(Boost(adjusted_props,
                                     modifier_effects[modifier_name]),
                               modifiers, rest)
             ELSE ApplyEffects(adjusted_props, modifiers, rest)

\* apply_modifier_effects with "adjusted_props = base_properties" at line
\* 237: the boosts are written into the dict passed in
apply_modifier_effects_InPlace(base_properties, modifiers) ==
    LET adjusted_props == ApplyEffects(base_properties, modifiers,
                                       DOMAIN modifiers)
    IN  Returned({[adjusted_props |-> adjusted_props,
                   base_properties |-> adjusted_props]})

\* SoapChemistry.apply_modifier_effects: the dict returned, and the dict
\* passed as base_properties as the call leaves it (line 237 works on a copy)
apply_modifier_effects(base_properties, modifiers) ==
    Returned({[adjusted_props |-> ApplyEffects(base_properties, modifiers,
                                               DOMAIN modifiers),
               base_properties |-> base_properties]})

(***************************************************************************)
(* Recipe and RecipeManager (src/src/models/recipe.py)                     *)
(***************************************************************************)
\* Recipe.__init__ at the clock reading now: the creation timestamp, the
\* modification timestamp copied from it and the calculated values at their
\* defaults. A modifiers argument of None, the empty dict here, gives {}.
Recipe(name, oils, superfat, lye_concentration, fragrance_percent, notes, recipe_modifiers, now) ==
    [name |-> name,
     oils |-> oils,
     superfat |-> superfat,
     lye_concentration |-> lye_concentration,
     fragrance_percent |-> fragrance_percent,
     notes |-> notes,
     modifiers |-> IF recipe_modifiers # EmptyDict THEN recipe_modifiers
                   ELSE EmptyDict,
     created_date |-> now,
     modified_date |-> now,
     lye_amount |-> 0,
     water_amount |-> 0,
     fragrance_amount |-> 0,
     lye_adjustment |-> 0,
     properties |-> EmptyDict,
     fatty_acids |-> EmptyDict]

\* Recipe.to_dict: the dictionary written to the recipes file
to_dict(self) ==
    ("name" :> self.name) @@ ("oils" :> self.oils)
        @@ ("superfat" :> self.superfat)
        @@ ("lye_concentration" :> self.lye_concentration)
        @@ ("fragrance_percent" :> self.fragrance_percent)
        @@ ("notes" :> self.notes)
        @@ ("modifiers" :> self.modifiers)
        @@ ("created_date" :> self.created_date)
        @@ ("modified_date" :> self.modified_date)
        @@ ("lye_amount" :> self.lye_amount)
        @@ ("water_amount" :> self.water_amount)
        @@ ("fragrance_amount" :> self.fragrance_amount)
        @@ ("lye_adjustment" :> self.lye_adjustment)
        @@ ("properties" :> self.properties)
        @@ ("fatty_acids" :> self.fatty_acids)

\* lines 60-68: the constructor call of from_dict at the clock reading now
FromDictConstructed(data, now) ==
    Recipe(data["name"], data["oils"],
           Get(data, "superfat", Num(5)),
           Get(data, "lye_concentration", Num(33)),
           Get(data, "fragrance_percent", Num(3)),
           Get(data, "notes", ""),
           Get(data, "modifiers", EmptyDict), now)

\* from_dict without lines 69-70: the timestamps stay those of the
\* constructor call
from_dict_FreshTimestamps(data, now) ==
    LET recipe == FromDictConstructed(data, now)
    IN  [recipe EXCEPT
            !.lye_amount = Get(data, "lye_amount", 0),
            !.water_amount = Get(data, "water_amount", 0),
            !.fragrance_amount = Get(data, "fragrance_amount", 0),
            !.lye_adjustment = Get(data, "lye_adjustment", 0),
            !.properties = Get(data, "properties", EmptyDict),
            !.fatty_acids = Get(data, "fatty_acids", EmptyDict)]

\* Recipe.from_dict at the clock reading now: the constructor call, then the
\* timestamps and the calculated values taken from the dictionary
from_dict(data, now) ==
    LET recipe == FromDictConstructed(data, now)
    IN  [recipe EXCEPT
            !.created_date = Get(data, "created_date", recipe.created_date),
            !.modified_date = Get(data, "modified_date", recipe.modified_date),
            !.lye_amount = Get(data, "lye_amount", 0),
            !.water_amount = Get(data, "water_amount", 0),
            !.fragrance_amount = Get(data, "fragrance_amount", 0),
            !.lye_adjustment = Get(data, "lye_adjustment", 0),
            !.properties = Get(data, "properties", EmptyDict),
            !.fatty_acids = Get(data, "fatty_acids", EmptyDict)]

\* RecipeManager.load_recipes: the recipes of the file's 'recipes' list
load_recipes(file, now) == [i \in DOMAIN file |-> from_dict(file[i], now)]

\* RecipeManager.save_recipes: the 'recipes' list written to the file
save_recipes(recipes_list) ==
    [i \in DOMAIN recipes_list |-> to_dict(recipes_list[i])]

\* RecipeManager.add_recipe: the list after the append
add_recipe(recipes_list, recipe) == Append(recipes_list, recipe)

\* list.pop(index) of a list of recipes for an index Python accepts: a
\* negative index counts from the end
Pop(recipes_list, index) ==
    LET position == IF index < 0 THEN Len(recipes_list) + index + 1
                    ELSE index + 1
    IN  [i \in 1..(Len(recipes_list) - 1) |->
            IF i < position THEN recipes_list[i] ELSE recipes_list[i + 1]]

\* the test "0 <= index < len(self.recipes)" of lines 116, 123 and 129
ValidIndex(recipes_list, index) == 0 <= index /\ index < Len(recipes_list)

\* RecipeManager.update_recipe at the clock reading now: the list after the
\* call
update_recipe(recipes_list, index, recipe, now) ==
    IF ValidIndex(recipes_list, index)
    THEN [recipes_list EXCEPT
             ![index + 1] = [recipe EXCEPT !.modified_date = now]]
    ELSE recipes_list

\* delete_recipe with the test "index < len(self.recipes)" alone: a negative
\* index within the list pops from the end
delete_recipe_NoLowerBound(recipes_list, index) ==
    IF index < Len(recipes_list) /\ 0 - Len(recipes_list) <= index
    THEN Pop(recipes_list, index)
    ELSE recipes_list

\* RecipeManager.delete_recipe: the list after the call
delete_recipe(recipes_list, index) ==
    IF ValidIndex(recipes_list, index) THEN Pop(recipes_list, index)
    ELSE recipes_list

\* RecipeManager.get_recipe: << >> for None, << recipe >> for a recipe
get_recipe(recipes_list, index) ==
    IF ValidIndex(recipes_list, index) THEN << recipes_list[index + 1] >>
    ELSE << >>

(***************************************************************************)
(* The front-ends: SoapMakerAutoApp (src/src/main_auto.py) and             *)
(* SoapMakerApp (src/src/main.py)                                          *)
(***************************************************************************)
\* The text of an entry field is << >> when the field is empty and << x >>
\* when it holds the number x.

\* f"{x:.1f}": the texts of x with one decimal
FormatOneDecimal(x) == {<< Rat(q, 10) >> : q \in Round1(x)}

\* float(text) of a text holding a number
Float(text) == text[1]

\* float(text or 0)
FloatOrZero(text) == IF text = << >> THEN Zero ELSE Float(text)

\* the grams of a typical batch of one pound (main_auto.py line 1177)
typical_oils_g == Rat(453592, 1000)

\* SelectModifier adding the amount to the one already held for the modifier
SelectModifierAdding(selected_modifiers, mod_id, amount) ==
    Put(selected_modifiers, mod_id,
        RAdd(Get(selected_modifiers, mod_id, Zero), amount))

\* "selected_modifiers[mod_id] = amount" (main_auto.py lines 1465, 1864,
\* 1913; main.py lines 508, 511, 725, 727)
SelectModifier(selected_modifiers, mod_id, amount) ==
    Put(selected_modifiers, mod_id, amount)

\* CollectModifiers without the test of the checkbox: every modifier with a
\* text in its amount field is collected
RECURSIVE CollectModifiersUnchecked(_, _, _)
CollectModifiersUnchecked(checked, amounts, names) ==
    IF names = {} THEN EmptyDict
    ELSE LET mod_id == CHOOSE x \in names : TRUE
             rest == CollectModifiersUnchecked(checked, amounts,
                                               names \ {mod_id})
         IN  IF amounts[mod_id] # << >>
             THEN SelectModifier(rest, mod_id, Float(amounts[mod_id]))
             ELSE rest

\* main_auto.py lines 1452-1468, 1856-1865, 1905-1914 and 1192-1201: the
\* loop over self.modifier_vars.items() collecting the amount of every
\* checked modifier with a text in its amount field, names being the keys not
\* yet visited
RECURSIVE CollectModifiers(_, _, _)
CollectModifiers(checked, amounts, names) ==
    IF names = {} THEN EmptyDict
    ELSE LET mod_id == CHOOSE x \in names : TRUE
             rest == CollectModifiers(checked, amounts, names \ {mod_id})
         IN  IF checked[mod_id] /\ amounts[mod_id] # << >>
             THEN SelectModifier(rest, mod_id, Float(amounts[mod_id]))
             ELSE rest

\* main.py lines 498-512 and 715-727: the modifiers of the enabled entries,
\* a percentage of the oils converted to grams and any other amount taken as
\* it is, names being the keys not yet visited
RECURSIVE EnabledModifiers(_, _, _, _)
EnabledModifiers(checked, amounts, names, total_oils) ==
    IF names = {} THEN EmptyDict
    ELSE LET entry_name == CHOOSE x \in names : TRUE
             rest == EnabledModifiers(checked, amounts,
                                      names \ {entry_name}, total_oils)
             modifier_info == modifiers_db[entry_name]
             usage_rate_type == Get(modifier_info, "usage_rate_type",
                                    "percent_of_oils")
             percent == FloatOrZero(amounts[entry_name])
         IN  IF ~checked[entry_name] THEN rest
             ELSE IF usage_rate_type = "percent_of_oils"
             THEN SelectModifier(rest, entry_name,
                                 RDiv(RMul(total_oils, percent), Num(100)))
             ELSE SelectModifier(rest, entry_name, percent)

\* main.py lines 488-491 and 703-707: the entries with a positive weight
PositiveWeights(entries) ==
    LET names == {oil_name \in DOMAIN entries : entries[oil_name] > 0}
    IN  [oil_name \in names |-> entries[oil_name]]

\* toggle_modifier of main_auto.py filling the field at every enabling
ToggledAmountAlwaysFilled(modifier_id, is_enabled, text, recipe_oils) ==
    IF is_enabled /\ modifier_id \in DOMAIN modifiers_db
    THEN LET default_percent == Get(modifiers_db[modifier_id],
                                    "typical_usage_percent", Num(1))
             total_oils == IF recipe_oils # EmptyDict
                           THEN Num(ISum(recipe_oils))
                           ELSE typical_oils_g
         IN  FormatOneDecimal(RDiv(RMul(total_oils, default_percent),
                                   Num(100)))
    ELSE {text}

\* main_auto.py lines 1164-1180: the texts the amount field may hold after
\* toggle_modifier(modifier_id), the checkbox being at is_enabled
ToggledAmount(modifier_id, is_enabled, text, recipe_oils) ==
    IF is_enabled /\ text = << >> /\ modifier_id \in DOMAIN modifiers_db
    THEN LET default_percent == Get(modifiers_db[modifier_id],
                                    "typical_usage_percent", Num(1))
             total_oils == IF recipe_oils # EmptyDict
                           THEN Num(ISum(recipe_oils))
                           ELSE typical_oils_g
         IN  FormatOneDecimal(RDiv(RMul(total_oils, default_percent),
                                   Num(100)))
    ELSE {text}

\* toggle_modifier of main.py leaving the text of a disabled entry as it is
EntryAmountKept(entry_name, is_enabled, text) ==
    IF is_enabled
    THEN << Get(modifiers_db[entry_name], "typical_usage_percent",
                Num(1)) >>
    ELSE text

\* main.py lines 436-444: the text of the amount entry after
\* toggle_modifier(modifier_name), the checkbox being at is_enabled
EntryAmount(entry_name, is_enabled, text) ==
    IF is_enabled
    THEN << Get(modifiers_db[entry_name], "typical_usage_percent",
                Num(1)) >>
    ELSE << Zero >>

\* main_auto.py lines 1432-1450: the texts the amount field of a modifier may
\* hold after the amounts are calculated for total_oils grams of oils
CalculatedAmount(mod_id, is_checked, text, total_oils) ==
    IF is_checked /\ mod_id \in DOMAIN modifiers_db
    THEN LET modifier_info == modifiers_db[mod_id]
             usage_type == Get(modifier_info, "usage_rate_type",
                               "percent_of_oils")
             typical == Get(modifier_info, "typical_usage_percent", Num(1))
         IN  IF usage_type = "percent_of_oils"
             THEN FormatOneDecimal(RDiv(RMul(total_oils, typical), Num(100)))
             ELSE IF usage_type = "tablespoons_per_pound"
             THEN FormatOneDecimal(RMul(RDiv(total_oils, typical_oils_g),
                                        typical))
             ELSE {text}
    ELSE {text}

\* the assignments of a text to every modifier, each from the texts allowed
\* for it
Assignments(allowed) ==
    {texts \in [DOMAIN allowed -> UNION {allowed[m] : m \in DOMAIN allowed}] :
        \A m \in DOMAIN allowed : texts[m] \in allowed[m]}

\* main_auto.py lines 1473-1482, 1878-1885 and 1936-1945, main.py lines
\* 520-527 and 738-746: the values calculated for a recipe in their order,
\* the first exception ending the calculation; with_effects tells whether
\* apply_modifier_effects is called on the properties
CalculatedValues(oils, superfat, lye_conc, fragrance_pct, selected_modifiers, with_effects) ==
    LET lye_outcomes == calculate_lye_amount(oils, superfat,
                                             selected_modifiers, "NaOH")
        lye_returned == {outcome \in lye_outcomes : ~outcome.raised}
        water_outcomes(lye_outcome) ==
            calculate_water_amount(
                Rat(lye_outcome.value[1] + lye_outcome.value[2], 100),
                lye_conc)
        Adjusted(base) ==
            IF with_effects
            THEN {outcome.value.adjusted_props :
                     outcome \in apply_modifier_effects(base,
                                                        selected_modifiers)}
            ELSE {base}
        Values(lye_outcome, water_outcome) ==
            {[raised |-> FALSE,
              value |-> [lye_amount |-> lye_outcome.value[1],
                         lye_adjustment |-> lye_outcome.value[2],
                         water_amount |-> water_outcome.value,
                         fragrance_amount |-> fragrance_outcome.value,
                         properties |-> adjusted,
                         fatty_acids |-> fatty_acids_outcome.value]] :
                fragrance_outcome \in
                    calculate_fragrance_amount(Num(ISum(oils)), fragrance_pct),
                adjusted \in
                    UNION {Adjusted(properties_outcome.value) :
                              properties_outcome \in
                                  calculate_soap_properties(oils)},
                fatty_acids_outcome \in calculate_fatty_acid_profile(oils)}
    IN  {outcome \in lye_outcomes : outcome.raised}
            \cup UNION {{outcome \in water_outcomes(lye_outcome) :
                            outcome.raised} : lye_outcome \in lye_returned}
            \cup UNION {UNION {Values(lye_outcome, water_outcome) :
                                  water_outcome \in
                                      {outcome \in
                                           water_outcomes(lye_outcome) :
                                               ~outcome.raised}} :
                           lye_outcome \in lye_returned}

(***************************************************************************)
(* State: the arguments of one request and what the request returned       *)
(***************************************************************************)
VARIABLES
    selected_oils,      \* list of selected oil names
    total_weight_lbs,   \* batch size in pounds, a rational
    target_props,       \* dict of target values; empty for None or {}
    recipe,             \* dict returned by generate_recipe, hundredths of oz
    percentages,        \* category percentages of the last targeted call
    gen_status,         \* "pending", "returned" or "raised"
    oil_weights,        \* dict {oil_name: weight in grams}
    properties,         \* dict returned by calculate_soap_properties, tenths
    prop_status,        \* "pending", "returned" or "raised"
    superfat_percent,   \* a rational
    lye_type,           \* 'NaOH', 'KOH' or another string
    modifiers,          \* dict {modifier_name: amount}; empty for None or {}
    lye,                \* pair returned by calculate_lye_amount, hundredths
    lye_status,         \* "idle" (not requested), "pending", "returned", "raised"
    fatty_acids,        \* dict returned by calculate_fatty_acid_profile, tenths
    fa_status,
    lye_weight,         \* a rational
    lye_concentration,  \* a rational
    water,              \* value returned by calculate_water_amount, hundredths
    water_status,
    total_oil_weight,   \* a rational
    fragrance_percent,  \* a rational
    fragrance,          \* value of calculate_fragrance_amount, hundredths
    fragrance_status,
    modifier_name,
    usage_percent,      \* << >> for None, << p >> for the percentage p
    modifier_amount,    \* value of calculate_modifier_amount, a rational
    amount_status,
    base_properties,    \* dict passed to apply_modifier_effects, tenths
    adjusted_props,     \* dict returned by apply_modifier_effects, tenths
    effects_status,
    front_end,          \* "main_auto", "main", "manager", or "idle" (none)
    modifier_vars,      \* {modifier: checkbox of the modifier}
    modifier_amount_vars, \* {modifier: text of its amount field}
    oil_entries,        \* main.py: {oil: weight entered, in grams}
    current_recipe_oils, \* main_auto.py: {oil: grams} of the generated recipe
    parameters,         \* superfat, lye concentration, fragrance fields
    results_text,       \* "" or "shown": the results panel
    recipes,            \* RecipeManager.recipes, a list of Recipe
    recipes_file,       \* the 'recipes' list of the recipes file
    clock,              \* the latest reading of datetime.now() kept in a recipe
    request,            \* the call made on the RecipeManager
    manager_status,     \* "idle", "pending" or "returned"
    found               \* what get_recipe returned: << >> for None

gen_vars == << selected_oils, total_weight_lbs, target_props, recipe,
               percentages, gen_status >>
blend_args == << oil_weights, superfat_percent, lye_type, modifiers >>
prop_vars == << properties, prop_status >>
lye_vars == << lye, lye_status >>
fa_vars == << fatty_acids, fa_status >>
water_vars == << lye_weight, lye_concentration, water, water_status >>
fragrance_vars == << total_oil_weight, fragrance_percent, fragrance,
                     fragrance_status >>
amount_vars == << modifier_name, usage_percent, modifier_amount,
                  amount_status >>
effects_vars == << base_properties, adjusted_props, effects_status >>

panel_vars == << modifier_vars, modifier_amount_vars >>
manager_vars == << recipes, recipes_file, clock, request, manager_status,
                   found >>
session_vars == << front_end, panel_vars, oil_entries, current_recipe_oils,
                   parameters, results_text, manager_vars >>

\* the variables of a call of the generator or of the calculator
call_vars == << gen_vars, blend_args, prop_vars, lye_vars, fa_vars, water_vars,
                fragrance_vars, amount_vars, effects_vars >>

vars == << call_vars, session_vars >>

\* the oils offered for selection, in the order of the checkboxes
SelectableOils ==
    << "Olive Oil", "Sunflower Oil", "Argan Oil", "Palm Oil", "Coconut Oil",
       "Lard", "Castor Oil" >>

Position(o) == CHOOSE i \in DOMAIN SelectableOils : SelectableOils[i] = o

\* Lists of distinct oils; a list of more than three oils is taken in checkbox
\* order, as the order of such a list does not reach the returned mapping.
Selections ==
    {s \in UNION {[1..n -> Range(SelectableOils)] : n \in 0..MaxSel} :
        /\ \A i, j \in DOMAIN s : i # j => s[i] # s[j]
        /\ Len(s) > 3 =>
             \A i, j \in DOMAIN s : i < j => Position(s[i]) < Position(s[j])}

BatchSizes == {Rat(31, 1000), Rat(333, 1000), Num(1), Num(2)}

\* target vectors inside the slider ranges (lines 721-737), among them a
\* partial one; the empty dict stands for no targets
SliderTargets ==
    {[hardness |-> 40, cleansing |-> 15, conditioning |-> 55, bubbly |-> 25,
      creamy |-> 30],
     [hardness |-> 54, cleansing |-> 22, conditioning |-> 44, bubbly |-> 14,
      creamy |-> 48],
     [hardness |-> 29, cleansing |-> 12, conditioning |-> 69, bubbly |-> 46,
      creamy |-> 16],
     [hardness |-> 47, cleansing |-> 13, conditioning |-> 60, bubbly |-> 20,
      creamy |-> 40],
     [hardness |-> 50]}

\* target vectors with values outside the property ranges
OutOfRangeTargets ==
    {[hardness |-> 80, cleansing |-> 30, conditioning |-> 90, bubbly |-> 60,
      creamy |-> 70],
     [hardness |-> 10, cleansing |-> 5, conditioning |-> 30, bubbly |-> 5,
      creamy |-> 5],
     [conditioning |-> 19]}

\* names entered in a weight mapping; "Mystery Oil" is not in the database
WeightNames == {"Olive Oil", "Coconut Oil", "Palm Oil", "Mystery Oil"}

WeightMappings ==
    UNION {[names -> 0..MaxWeight] : names \in SUBSET WeightNames}

\* the percentages of a call that did not reach generate_targeted_recipe
NoPercentages ==
    LET none == [c \in {"base", "coconut", "hard", "animal", "castor",
                        "specialty"} |-> Zero]
    IN  [raw |-> none, adjusted |-> none, normalized |-> none]

Results ==
    /\ recipe = EmptyDict
    /\ percentages = NoPercentages
    /\ gen_status = "pending"
    /\ properties = EmptyDict
    /\ prop_status = "pending"

\* dicts {modifier_name: amount}; "Glitter" is in neither the modifiers
\* database nor the effects table, "Honey" only in the effects table
ModifierMappings ==
    {EmptyDict,
     "Citric Acid" :> Num(8),
     "Citric Acid" :> Num(10),
     ("Citric Acid" :> Rat(1, 8)) @@ ("Sugar" :> Num(3))
         @@ ("Glitter" :> Num(2)),
     ("Sodium Lactate" :> Num(2)) @@ ("Citric Acid" :> Zero)
         @@ ("Kaolin Clay" :> Num(5)),
     ("Sugar" :> Zero) @@ ("Honey" :> Rat(1, 8))}

\* (superfat_percent, modifiers, lye_type) of a call of calculate_lye_amount;
\* the first is the call with the defaults
LyeArguments ==
    {<< Num(5), EmptyDict, "NaOH" >>,
     << Num(0), "Citric Acid" :> Num(8), "KOH" >>,
     << Num(5), "Citric Acid" :> Num(10), "NaOH" >>,
     << Num(-5), ("Citric Acid" :> Rat(1, 8)) @@ ("Sugar" :> Num(3))
                     @@ ("Glitter" :> Num(2)), "NaOH" >>,
     << Rat(15, 2), ("Sodium Lactate" :> Num(2)) @@ ("Citric Acid" :> Zero)
                        @@ ("Kaolin Clay" :> Num(5)), "LiOH" >>}

LyeWeights == {Zero, Rat(7, 100), Num(100), Rat(12345, 100)}

Concentrations ==
    {Num(33), Num(25), Num(40), Num(50), Zero, Num(100), Num(150), Num(-10)}

\* total oil weights in grams, among them one ounce
TotalOilWeights == {Zero, Rat(1, 2), Rat(283495, 10000), Num(800)}

FragrancePercents == {Num(3), Zero, Rat(5, 2), Num(-2)}

ModifierNames ==
    {"Citric Acid", "Sodium Lactate", "Sugar", "Kaolin Clay", "Glitter"}

UsagePercents == {<< >>, << Zero >>, << Num(2) >>, << Rat(5, 2) >>}

\* property dicts passed to apply_modifier_effects: dicts returned by
\* calculate_soap_properties, a dict of two properties and the empty dict
BaseProperties ==
    UNION {{outcome.value : outcome \in calculate_soap_properties(w)} :
              w \in {"Olive Oil" :> 1,
                     ("Olive Oil" :> 2) @@ ("Coconut Oil" :> 1),
                     ("Palm Oil" :> 3) @@ ("Mystery Oil" :> 1)}}
        \cup {[hardness |-> 405, bubbly |-> 123], EmptyDict}

\* no call of calculate_lye_amount or calculate_fatty_acid_profile requested
BlendIdle ==
    /\ superfat_percent = Num(5)
    /\ lye_type = "NaOH"
    /\ lye = << >>
    /\ lye_status = "idle"
    /\ fatty_acids = EmptyDict
    /\ fa_status = "idle"

WaterIdle ==
    /\ lye_weight = Zero
    /\ lye_concentration = Num(33)
    /\ water = 0
    /\ water_status = "idle"

FragranceIdle ==
    /\ fragrance_percent = Num(3)
    /\ fragrance = 0
    /\ fragrance_status = "idle"

AmountIdle ==
    /\ modifier_name = ""
    /\ usage_percent = << >>
    /\ modifier_amount = Zero
    /\ amount_status = "idle"

EffectsIdle ==
    /\ base_properties = EmptyDict
    /\ adjusted_props = EmptyDict
    /\ effects_status = "idle"

\* saved recipes a session may hold before the save handlers refuse
MaxRecipes == 1

\* the modifiers of the panels: get_available_modifiers()
PanelModifiers == DOMAIN modifiers_db

\* the modifiers whose checkbox and amount field the user operates
OperatedModifiers == {"Citric Acid", "Sugar"}

\* the texts the user types into an amount field
TypedAmounts == {<< Num(10) >>}

\* the gram weights SoapMakerAutoApp.generate_recipe may store in
\* current_recipe_oils
GeneratedRecipes == {("Olive Oil" :> 300) @@ ("Coconut Oil" :> 200)}

\* the weights of the oil entries of main.py, in grams: one of them is the
\* first generated recipe, the other has no positive weight
OilEntries ==
    {("Olive Oil" :> 300) @@ ("Coconut Oil" :> 200) @@ ("Palm Oil" :> 0),
     [oil_name \in DOMAIN oils_db |-> 0]}

\* the parameter fields as the front-ends create them (main_auto.py lines
\* 701-712, main.py lines 159-170)
DefaultParameters ==
    [superfat |-> Num(5), lye_concentration |-> Num(33),
     fragrance_percent |-> Num(3)]

\* the parameter fields as the user has set them when a session starts
TypedParameters ==
    {DefaultParameters,
     [superfat |-> Num(8), lye_concentration |-> Zero,
      fragrance_percent |-> Zero]}

\* the readings datetime.now() may give next
Now == {clock + 1}

\* no RecipeManager call requested
ManagerIdle ==
    /\ request = << >>
    /\ manager_status = "idle"
    /\ found = << >>

\* no front-end running
SessionIdle ==
    /\ front_end = "idle"
    /\ modifier_vars = EmptyDict
    /\ modifier_amount_vars = EmptyDict
    /\ oil_entries = EmptyDict
    /\ current_recipe_oils = EmptyDict
    /\ parameters = DefaultParameters
    /\ results_text = ""
    /\ recipes = << >>
    /\ recipes_file = << >>
    /\ clock = 0
    /\ ManagerIdle

\* a request to the generator with slider targets or none
InitGenerator(targets) ==
    /\ selected_oils \in Selections
    /\ total_weight_lbs \in BatchSizes
    /\ target_props \in targets
    /\ oil_weights = EmptyDict
    /\ Results
    /\ modifiers = EmptyDict
    /\ total_oil_weight = Zero
    /\ BlendIdle /\ WaterIdle /\ FragranceIdle /\ AmountIdle /\ EffectsIdle
    /\ SessionIdle

\* no request to the generator
NoSelection ==
    /\ selected_oils = << >>
    /\ total_weight_lbs = Num(1)
    /\ target_props = EmptyDict
    /\ recipe = EmptyDict
    /\ percentages = NoPercentages
    /\ gen_status = "pending"

PropertiesIdle ==
    /\ properties = EmptyDict
    /\ prop_status = "idle"

\* a request to the blend calculator: the properties of a weight mapping,
\* and its lye with the default superfat, lye type and modifiers
InitChemistry ==
    /\ NoSelection
    /\ oil_weights \in WeightMappings
    /\ properties = EmptyDict
    /\ prop_status = "pending"
    /\ superfat_percent = Num(5)
    /\ modifiers = EmptyDict
    /\ lye_type = "NaOH"
    /\ lye = << >>
    /\ lye_status = "pending"
    /\ fatty_acids = EmptyDict
    /\ fa_status = "idle"
    /\ total_oil_weight = Zero
    /\ WaterIdle /\ FragranceIdle /\ AmountIdle /\ EffectsIdle
    /\ SessionIdle

\* a call of calculate_lye_amount with every argument given
InitLye ==
    /\ NoSelection
    /\ PropertiesIdle
    /\ oil_weights \in WeightMappings
    /\ \E arguments \in LyeArguments :
          /\ superfat_percent = arguments[1]
          /\ modifiers = arguments[2]
          /\ lye_type = arguments[3]
    /\ lye = << >>
    /\ lye_status = "pending"
    /\ fatty_acids = EmptyDict
    /\ fa_status = "idle"
    /\ total_oil_weight = Zero
    /\ WaterIdle /\ FragranceIdle /\ AmountIdle /\ EffectsIdle
    /\ SessionIdle

InitFattyAcids ==
    /\ NoSelection
    /\ PropertiesIdle
    /\ oil_weights \in WeightMappings
    /\ superfat_percent = Num(5)
    /\ modifiers = EmptyDict
    /\ lye_type = "NaOH"
    /\ lye = << >>
    /\ lye_status = "idle"
    /\ fatty_acids = EmptyDict
    /\ fa_status = "pending"
    /\ total_oil_weight = Zero
    /\ WaterIdle /\ FragranceIdle /\ AmountIdle /\ EffectsIdle
    /\ SessionIdle

InitWater ==
    /\ NoSelection
    /\ PropertiesIdle
    /\ oil_weights = EmptyDict
    /\ modifiers = EmptyDict
    /\ total_oil_weight = Zero
    /\ lye_weight \in LyeWeights
    /\ lye_concentration \in Concentrations
    /\ water = 0
    /\ water_status = "pending"
    /\ BlendIdle /\ FragranceIdle /\ AmountIdle /\ EffectsIdle
    /\ SessionIdle

InitFragrance ==
    /\ NoSelection
    /\ PropertiesIdle
    /\ oil_weights = EmptyDict
    /\ modifiers = EmptyDict
    /\ total_oil_weight \in TotalOilWeights
    /\ fragrance_percent \in FragrancePercents
    /\ fragrance = 0
    /\ fragrance_status = "pending"
    /\ BlendIdle /\ WaterIdle /\ AmountIdle /\ EffectsIdle
    /\ SessionIdle

InitModifierAmount ==
    /\ NoSelection
    /\ PropertiesIdle
    /\ oil_weights = EmptyDict
    /\ modifiers = EmptyDict
    /\ total_oil_weight \in TotalOilWeights
    /\ modifier_name \in ModifierNames
    /\ usage_percent \in UsagePercents
    /\ modifier_amount = Zero
    /\ amount_status = "pending"
    /\ BlendIdle /\ WaterIdle /\ FragranceIdle /\ EffectsIdle
    /\ SessionIdle

InitModifierEffects ==
    /\ NoSelection
    /\ PropertiesIdle
    /\ oil_weights = EmptyDict
    /\ modifiers \in ModifierMappings
    /\ total_oil_weight = Zero
    /\ base_properties \in BaseProperties
    /\ adjusted_props = EmptyDict
    /\ effects_status = "pending"
    /\ BlendIdle /\ WaterIdle /\ FragranceIdle /\ AmountIdle
    /\ SessionIdle

\* no call of the generator or of the calculator requested
NoCall ==
    /\ NoSelection
    /\ PropertiesIdle
    /\ oil_weights = EmptyDict
    /\ modifiers = EmptyDict
    /\ total_oil_weight = Zero
    /\ BlendIdle /\ WaterIdle /\ FragranceIdle /\ AmountIdle /\ EffectsIdle

\* SoapMakerAutoApp.__init__ and the parameters the user sets: no recipe,
\* every modifier unchecked with the amount field at
\* mod_data.get('default_amount', ''), no recipes file yet
InitAutoApp ==
    /\ NoCall
    /\ front_end = "main_auto"
    /\ modifier_vars = [mod_id \in PanelModifiers |-> FALSE]
    /\ modifier_amount_vars =
           [mod_id \in PanelModifiers |->
               Get(modifiers_db[mod_id], "default_amount", << >>)]
    /\ oil_entries = EmptyDict
    /\ current_recipe_oils = EmptyDict
    /\ parameters \in TypedParameters
    /\ results_text = ""
    /\ recipes = << >>
    /\ recipes_file = << >>
    /\ clock = 0
    /\ ManagerIdle

\* SoapMakerApp.__init__ and the oil weights and parameters the user sets:
\* every modifier disabled with the amount "0", no recipes file yet
InitManualApp ==
    /\ NoCall
    /\ front_end = "main"
    /\ modifier_vars = [entry_name \in PanelModifiers |-> FALSE]
    /\ modifier_amount_vars = [entry_name \in PanelModifiers |-> << Zero >>]
    /\ oil_entries \in OilEntries
    /\ current_recipe_oils = EmptyDict
    /\ parameters \in TypedParameters
    /\ results_text = ""
    /\ recipes = << >>
    /\ recipes_file = << >>
    /\ clock = 0
    /\ ManagerIdle

\* the recipe the save handlers build and fill at the clock reading now
\* (main_auto.py lines 1867-1885, main.py lines 729-746)
SavedRecipe(oils, fields, selected_modifiers, values, now) ==
    [Recipe("Recipe", oils, fields.superfat, fields.lye_concentration,
            fields.fragrance_percent, "", selected_modifiers, now)
        EXCEPT !.lye_amount = values.lye_amount,
               !.lye_adjustment = values.lye_adjustment,
               !.water_amount = values.water_amount,
               !.fragrance_amount = values.fragrance_amount,
               !.properties = values.properties,
               !.fatty_acids = values.fatty_acids]

\* recipes stored by earlier sessions, with the values the save handlers
\* calculate: one saved by main_auto.py with citric acid at the clock reading
\* 1, the same after an update at the reading 2, and one saved by main.py
\* without modifiers at the reading 2
StoredRecipes ==
    LET first ==
            [Recipe("Recipe", ("Olive Oil" :> 300) @@ ("Coconut Oil" :> 200),
                    Num(5), Num(33), Num(3), "", "Citric Acid" :> Num(5), 1)
                EXCEPT !.lye_amount = 7296,
                       !.lye_adjustment = 300,
                       !.water_amount = 15422,
                       !.fragrance_amount = 1500,
                       !.properties =
                           [hardness |-> 428, cleansing |-> 268,
                            conditioning |-> 542, bubbly |-> 268,
                            creamy |-> 150, iodine |-> 550, ins |-> 1662],
                       !.fatty_acids =
                           [lauric |-> 192, myristic |-> 76, palmitic |-> 120,
                            stearic |-> 30, ricinoleic |-> 0, oleic |-> 446,
                            linoleic |-> 80, linolenic |-> 6]]
        plain ==
            [Recipe("Recipe", "Olive Oil" :> 1000, Num(5), Num(33), Num(3), "",
                    EmptyDict, 2)
                EXCEPT !.lye_amount = 12730,
                       !.water_amount = 25846,
                       !.fragrance_amount = 3000,
                       !.properties =
                           [hardness |-> 170, cleansing |-> 0,
                            conditioning |-> 820, bubbly |-> 0,
                            creamy |-> 170, iodine |-> 850, ins |-> 1050],
                       !.fatty_acids =
                           [lauric |-> 0, myristic |-> 0, palmitic |-> 140,
                            stearic |-> 30, ricinoleic |-> 0, oleic |-> 690,
                            linoleic |-> 120, linolenic |-> 10]]
    IN  {first, [first EXCEPT !.modified_date = 2], plain}

\* the lists of at most two stored recipes
StoredCollections ==
    UNION {[1..n -> StoredRecipes] : n \in 0..2}

\* the indexes passed to the RecipeManager, among them negative ones and
\* ones past the end
Indexes == -2..2

\* the calls made on the RecipeManager
Requests ==
    {[op |-> "update_recipe", index |-> index, recipe |-> stored] :
        index \in Indexes, stored \in StoredRecipes}
      \cup {[op |-> op, index |-> index, recipe |-> << >>] :
               op \in {"delete_recipe", "get_recipe"}, index \in Indexes}
      \cup {[op |-> "load_recipes", index |-> 0, recipe |-> << >>]}

\* a RecipeManager constructed on a recipes file written by earlier sessions,
\* and one call to make on it
InitManager ==
    /\ NoCall
    /\ front_end = "manager"
    /\ modifier_vars = EmptyDict
    /\ modifier_amount_vars = EmptyDict
    /\ oil_entries = EmptyDict
    /\ current_recipe_oils = EmptyDict
    /\ parameters = DefaultParameters
    /\ results_text = ""
    /\ recipes \in StoredCollections
    /\ recipes_file = save_recipes(recipes)
    /\ clock = 3
    /\ request \in Requests
    /\ manager_status = "pending"
    /\ found = << >>

InitSession == InitAutoApp \/ InitManualApp \/ InitManager

InitCalculator ==
    \/ InitChemistry
    \/ InitLye
    \/ InitFattyAcids
    \/ InitWater
    \/ InitFragrance
    \/ InitModifierAmount
    \/ InitModifierEffects

Init ==
    InitGenerator({EmptyDict} \cup SliderTargets) \/ InitCalculator
        \/ InitSession

InitAnyTargets ==
    InitGenerator({EmptyDict} \cup SliderTargets \cup OutOfRangeTargets)
        \/ InitCalculator \/ InitSession

\* AutoRecipeGenerator.generate_recipe(selected_oils, total_weight_lbs,
\* target_props)
GenerateRecipe ==
    /\ gen_status = "pending"
    /\ \E outcome \in generate_recipe(selected_oils, total_weight_lbs,
                                      target_props) :
          /\ recipe' = outcome.value
          /\ gen_status' = IF outcome.raised THEN "raised" ELSE "returned"
    /\ percentages' = IF selected_oils # << >> /\ DOMAIN target_props # {}
                      THEN TargetedPercentages(selected_oils, target_props)
                      ELSE NoPercentages
    /\ UNCHANGED << selected_oils, total_weight_lbs, target_props >>
    /\ UNCHANGED << blend_args, prop_vars, lye_vars, fa_vars, water_vars,
                    fragrance_vars, amount_vars, effects_vars >>
    /\ UNCHANGED session_vars

\* SoapChemistry.calculate_soap_properties(oil_weights)
CalculateSoapProperties ==
    /\ prop_status = "pending"
    /\ \E outcome \in calculate_soap_properties(oil_weights) :
          /\ properties' = outcome.value
          /\ prop_status' = IF outcome.raised THEN "raised" ELSE "returned"
    /\ UNCHANGED << gen_vars, blend_args, lye_vars, fa_vars, water_vars,
                    fragrance_vars, amount_vars, effects_vars >>
    /\ UNCHANGED session_vars

\* SoapChemistry.calculate_lye_amount(oil_weights, superfat_percent,
\* modifiers, lye_type)
CalculateLyeAmount ==
    /\ lye_status = "pending"
    /\ \E outcome \in calculate_lye_amount(oil_weights, superfat_percent,
                                           modifiers, lye_type) :
          /\ lye' = outcome.value
          /\ lye_status' = IF outcome.raised THEN "raised" ELSE "returned"
    /\ UNCHANGED << gen_vars, blend_args, prop_vars, fatty_acids, fa_status,
                    water_vars, fragrance_vars, amount_vars, effects_vars >>
    /\ UNCHANGED session_vars

\* SoapChemistry.calculate_fatty_acid_profile(oil_weights)
CalculateFattyAcidProfile ==
    /\ fa_status = "pending"
    /\ \E outcome \in calculate_fatty_acid_profile(oil_weights) :
          /\ fatty_acids' = outcome.value
          /\ fa_status' = IF outcome.raised THEN "raised" ELSE "returned"
    /\ UNCHANGED << gen_vars, blend_args, prop_vars, lye_vars, water_vars,
                    fragrance_vars, amount_vars, effects_vars >>
    /\ UNCHANGED session_vars

\* SoapChemistry.calculate_water_amount(lye_weight, lye_concentration)
CalculateWaterAmount ==
    /\ water_status = "pending"
    /\ \E outcome \in calculate_water_amount(lye_weight, lye_concentration) :
          /\ water' = outcome.value
          /\ water_status' = IF outcome.raised THEN "raised" ELSE "returned"
    /\ UNCHANGED << lye_weight, lye_concentration >>
    /\ UNCHANGED << gen_vars, blend_args, prop_vars, lye_vars, fa_vars,
                    fragrance_vars, amount_vars, effects_vars >>
    /\ UNCHANGED session_vars

\* SoapChemistry.calculate_fragrance_amount(total_oil_weight,
\* fragrance_percent)
CalculateFragranceAmount ==
    /\ fragrance_status = "pending"
    /\ \E outcome \in calculate_fragrance_amount(total_oil_weight,
                                                 fragrance_percent) :
          /\ fragrance' = outcome.value
          /\ fragrance_status' = IF outcome.raised THEN "raised"
                                 ELSE "returned"
    /\ UNCHANGED << total_oil_weight, fragrance_percent >>
    /\ UNCHANGED << gen_vars, blend_args, prop_vars, lye_vars, fa_vars,
                    water_vars, amount_vars, effects_vars >>
    /\ UNCHANGED session_vars

\* SoapChemistry.calculate_modifier_amount(modifier_name, total_oil_weight,
\* usage_percent)
CalculateModifierAmount ==
    /\ amount_status = "pending"
    /\ \E outcome \in calculate_modifier_amount(modifier_name,
                                                total_oil_weight,
                                                usage_percent) :
          /\ modifier_amount' = outcome.value
          /\ amount_status' = IF outcome.raised THEN "raised" ELSE "returned"
    /\ UNCHANGED << modifier_name, usage_percent >>
    /\ UNCHANGED << gen_vars, blend_args, prop_vars, lye_vars, fa_vars,
                    water_vars, fragrance_vars, effects_vars >>
    /\ UNCHANGED session_vars

\* SoapChemistry.apply_modifier_effects(base_properties, modifiers)
ApplyModifierEffects ==
    /\ effects_status = "pending"
    /\ \E outcome \in apply_modifier_effects(base_properties, modifiers) :
          /\ adjusted_props' = outcome.value.adjusted_props
          /\ base_properties' = outcome.value.base_properties
          /\ effects_status' = IF outcome.raised THEN "raised" ELSE "returned"
    /\ UNCHANGED << gen_vars, blend_args, prop_vars, lye_vars, fa_vars,
                    water_vars, fragrance_vars, amount_vars >>
    /\ UNCHANGED session_vars

\* SoapMakerAutoApp.toggle_modifier(modifier_id) after a click on the
\* checkbox, which flips the checkbox before the handler runs; the handler's
\* update_properties_display() rewrites the property lines of a shown result
AppToggleModifier(modifier_id) ==
    /\ front_end = "main_auto"
    /\ LET is_enabled == ~modifier_vars[modifier_id]
       IN  /\ modifier_vars' = [modifier_vars EXCEPT ![modifier_id] = is_enabled]
           /\ \E text \in ToggledAmount(modifier_id, is_enabled,
                                        modifier_amount_vars[modifier_id],
                                        current_recipe_oils) :
                 modifier_amount_vars' =
                     [modifier_amount_vars EXCEPT ![modifier_id] = text]
    /\ UNCHANGED << front_end, oil_entries, current_recipe_oils, parameters,
                    results_text, manager_vars >>
    /\ UNCHANGED call_vars

\* SoapMakerApp.toggle_modifier(modifier_name) after a click on the checkbox
ToggleModifier(entry_name) ==
    /\ front_end = "main"
    /\ LET is_enabled == ~modifier_vars[entry_name]
       IN  /\ modifier_vars' = [modifier_vars EXCEPT ![entry_name] = is_enabled]
           /\ modifier_amount_vars' =
                  [modifier_amount_vars EXCEPT
                      ![entry_name] =
                          EntryAmount(entry_name, is_enabled,
                                      modifier_amount_vars[entry_name])]
    /\ UNCHANGED << front_end, oil_entries, current_recipe_oils, parameters,
                    results_text, manager_vars >>
    /\ UNCHANGED call_vars

\* the user types an amount into the entry of a modifier, which takes input
\* only while the modifier is enabled (state 'normal')
EditAmount(mod_id, text) ==
    /\ front_end \in {"main_auto", "main"}
    /\ modifier_vars[mod_id]
    /\ modifier_amount_vars' = [modifier_amount_vars EXCEPT ![mod_id] = text]
    /\ UNCHANGED << front_end, modifier_vars, oil_entries, current_recipe_oils,
                    parameters, results_text, manager_vars >>
    /\ UNCHANGED call_vars

\* SoapMakerAutoApp.generate_recipe. accepted tells whether some oil is
\* selected and the batch size is positive; generated is what the recipe of
\* the generator for the selection, the batch size and the sliders (lines
\* 1395-1426) comes to in grams.
AppGenerateRecipe(accepted, generated) ==
    /\ front_end = "main_auto"
    /\ IF ~accepted
       THEN UNCHANGED << modifier_amount_vars, current_recipe_oils,
                         results_text >>
       ELSE IF parameters.lye_concentration = Zero
       THEN UNCHANGED << modifier_amount_vars, current_recipe_oils,
                         results_text >>
       ELSE /\ current_recipe_oils' = generated
            /\ modifier_amount_vars' \in
                   Assignments([mod_id \in PanelModifiers |->
                       CalculatedAmount(mod_id, modifier_vars[mod_id],
                                        modifier_amount_vars[mod_id],
                                        Num(ISum(generated)))])
            /\ \E outcome \in
                   CalculatedValues(generated, parameters.superfat,
                                    parameters.lye_concentration,
                                    parameters.fragrance_percent,
                                    CollectModifiers(modifier_vars,
                                                     modifier_amount_vars',
                                                     PanelModifiers),
                                    TRUE) :
                  IF outcome.raised THEN UNCHANGED results_text
                  ELSE results_text' = "shown"
    /\ UNCHANGED << front_end, modifier_vars, oil_entries, parameters,
                    manager_vars >>
    /\ UNCHANGED call_vars

\* SoapMakerApp.calculate_recipe
CalculateRecipe ==
    /\ front_end = "main"
    /\ LET weights == PositiveWeights(oil_entries)
       IN  IF weights = EmptyDict
           THEN UNCHANGED results_text
           ELSE \E outcome \in
                    CalculatedValues(weights, parameters.superfat,
                                     parameters.lye_concentration,
                                     parameters.fragrance_percent,
                                     EnabledModifiers(modifier_vars,
                                                      modifier_amount_vars,
                                                      PanelModifiers,
                                                      Num(ISum(weights))),
                                     FALSE) :
                   IF outcome.raised THEN UNCHANGED results_text
                   ELSE results_text' = "shown"
    /\ UNCHANGED << front_end, panel_vars, oil_entries, current_recipe_oils,
                    parameters, manager_vars >>
    /\ UNCHANGED call_vars

\* the end of both save handlers: the Recipe built at the clock reading now
\* is filled with the calculated values and added, unless the calculation
\* raised and the Recipe is dropped with its timestamps (main_auto.py lines
\* 1867-1892, main.py lines 729-753)
SaveCalculated(oils, selected_modifiers, with_effects) ==
    \E now \in Now :
        \E outcome \in CalculatedValues(oils, parameters.superfat,
                                        parameters.lye_concentration,
                                        parameters.fragrance_percent,
                                        selected_modifiers, with_effects) :
            IF outcome.raised
            THEN UNCHANGED << recipes, recipes_file, clock >>
            ELSE /\ clock' = now
                 /\ recipes' =
                        add_recipe(recipes,
                                   SavedRecipe(oils, parameters,
                                               selected_modifiers,
                                               outcome.value, now))
                 /\ recipes_file' = save_recipes(recipes')

\* save_recipe of main_auto.py without the test of lines 1851-1853
AppSaveRecipeUnguarded ==
    /\ front_end = "main_auto"
    /\ Len(recipes) < MaxRecipes
    /\ SaveCalculated(current_recipe_oils,
                      CollectModifiers(modifier_vars, modifier_amount_vars,
                                       PanelModifiers), TRUE)
    /\ UNCHANGED << front_end, panel_vars, oil_entries, current_recipe_oils,
                    parameters, results_text, request, manager_status, found >>
    /\ UNCHANGED call_vars

\* SoapMakerAutoApp.save_recipe
AppSaveRecipe ==
    /\ front_end = "main_auto"
    /\ Len(recipes) < MaxRecipes
    /\ IF current_recipe_oils = EmptyDict
       THEN UNCHANGED << recipes, recipes_file, clock >>
       ELSE SaveCalculated(current_recipe_oils,
                           CollectModifiers(modifier_vars,
                                            modifier_amount_vars,
                                            PanelModifiers), TRUE)
    /\ UNCHANGED << front_end, panel_vars, oil_entries, current_recipe_oils,
                    parameters, results_text, request, manager_status, found >>
    /\ UNCHANGED call_vars

\* SoapMakerApp.save_recipe
SaveRecipe ==
    /\ front_end = "main"
    /\ Len(recipes) < MaxRecipes
    /\ LET weights == PositiveWeights(oil_entries)
       IN  IF weights = EmptyDict
           THEN UNCHANGED << recipes, recipes_file, clock >>
           ELSE SaveCalculated(weights,
                               EnabledModifiers(modifier_vars,
                                                modifier_amount_vars,
                                                PanelModifiers,
                                                Num(ISum(weights))), FALSE)
    /\ UNCHANGED << front_end, panel_vars, oil_entries, current_recipe_oils,
                    parameters, results_text, request, manager_status, found >>
    /\ UNCHANGED call_vars

\* SoapMakerAutoApp.export_to_pdf: with a recipe, the Recipe is built and
\* calculated as in save_recipe and written to a PDF file, then dropped; no
\* field of the session and no recipe of the manager changes
ExportToPdf ==
    /\ front_end = "main_auto"
    /\ UNCHANGED session_vars
    /\ UNCHANGED call_vars

\* SoapMakerAutoApp.clear_all
ClearAll ==
    /\ front_end = "main_auto"
    /\ parameters' = DefaultParameters
    /\ results_text' = ""
    /\ current_recipe_oils' = EmptyDict
    /\ UNCHANGED << front_end, panel_vars, oil_entries, manager_vars >>
    /\ UNCHANGED call_vars

\* what a RecipeManager call leaves alone
ManagerFrame ==
    /\ UNCHANGED << front_end, panel_vars, oil_entries, current_recipe_oils,
                    parameters, results_text, request >>
    /\ UNCHANGED call_vars

\* RecipeManager.update_recipe(index, recipe)
UpdateRecipe ==
    /\ manager_status = "pending"
    /\ request.op = "update_recipe"
    /\ \E now \in Now :
          /\ recipes' = update_recipe(recipes, request.index, request.recipe,
                                      now)
          /\ clock' = IF ValidIndex(recipes, request.index) THEN now
                      ELSE clock
    /\ recipes_file' = IF ValidIndex(recipes, request.index)
                       THEN save_recipes(recipes')
                       ELSE recipes_file
    /\ manager_status' = "returned"
    /\ UNCHANGED found
    /\ ManagerFrame

\* RecipeManager.delete_recipe(index)
DeleteRecipe ==
    /\ manager_status = "pending"
    /\ request.op = "delete_recipe"
    /\ recipes' = delete_recipe(recipes, request.index)
    /\ recipes_file' = IF ValidIndex(recipes, request.index)
                       THEN save_recipes(recipes')
                       ELSE recipes_file
    /\ manager_status' = "returned"
    /\ UNCHANGED << clock, found >>
    /\ ManagerFrame

\* RecipeManager.get_recipe(index)
GetRecipe ==
    /\ manager_status = "pending"
    /\ request.op = "get_recipe"
    /\ found' = get_recipe(recipes, request.index)
    /\ manager_status' = "returned"
    /\ UNCHANGED << recipes, recipes_file, clock >>
    /\ ManagerFrame

\* RecipeManager.load_recipes(), as a RecipeManager constructed on the file
\* runs it
LoadRecipes ==
    /\ manager_status = "pending"
    /\ request.op = "load_recipes"
    /\ \E now \in Now :
          /\ recipes' = load_recipes(recipes_file, now)
          /\ clock' = now
    /\ manager_status' = "returned"
    /\ UNCHANGED << recipes_file, found >>
    /\ ManagerFrame

Next ==
    \/ GenerateRecipe
    \/ CalculateSoapProperties
    \/ CalculateLyeAmount
    \/ CalculateFattyAcidProfile
    \/ CalculateWaterAmount
    \/ CalculateFragranceAmount
    \/ CalculateModifierAmount
    \/ ApplyModifierEffects
    \/ \E modifier_id \in OperatedModifiers : AppToggleModifier(modifier_id)
    \/ \E entry_name \in OperatedModifiers : ToggleModifier(entry_name)
    \/ \E mod_id \in OperatedModifiers, text \in TypedAmounts :
           EditAmount(mod_id, text)
    \/ \E accepted \in BOOLEAN, generated \in GeneratedRecipes :
           AppGenerateRecipe(accepted, generated)
    \/ CalculateRecipe
    \/ AppSaveRecipe
    \/ SaveRecipe
    \/ ExportToPdf
    \/ ClearAll
    \/ UpdateRecipe
    \/ DeleteRecipe
    \/ GetRecipe
    \/ LoadRecipes

Spec == Init /\ [][Next]_vars

SpecAnyTargets == InitAnyTargets /\ [][Next]_vars

(***************************************************************************)
(* Properties of the allocation solver                                     *)
(***************************************************************************)
RAbs(a) == IF a.n < 0 THEN RNeg(a) ELSE a
RLeq(a, b) == ~RLess(b, a)

\* the requested total mass in ounces
RequestedOz == RMul(total_weight_lbs, Num(16))

\* the selected oils of a category
SelectedIn(category) == Range(selected_oils) \cap OIL_CATEGORIES[category]

\* the first selected oil of a category that has a selected oil
FirstIn(category) ==
    selected_oils[CHOOSE i \in DOMAIN selected_oils :
                     /\ selected_oils[i] \in OIL_CATEGORIES[category]
                     /\ \A j \in 1..(i - 1) :
                           selected_oils[j] \notin OIL_CATEGORIES[category]]

NoTargets == DOMAIN target_props = {}

\* the distance, in ounces, between the sum of the returned weights and the
\* requested total
SumError == RAbs(RSub(Rat(ISum(recipe), 100), RequestedOz))

C3_TwoOilSplit ==
    (gen_status = "returned" /\ Len(selected_oils) = 2 /\ NoTargets) =>
        /\ DOMAIN recipe = Range(selected_oils)
        /\ IF SelectedIn("base") # {} /\ SelectedIn("hard") # {}
           THEN \A o \in Range(selected_oils) :
                   recipe[o] \in Round2(RMul(RequestedOz,
                                             IF o \in OIL_CATEGORIES.base
                                             THEN Rat(70, 100)
                                             ELSE Rat(30, 100)))
           ELSE /\ recipe[selected_oils[1]]
                      \in Round2(RMul(RequestedOz, Rat(60, 100)))
                /\ recipe[selected_oils[2]]
                      \in Round2(RMul(RequestedOz, Rat(40, 100)))

\* a hard oil selected before a base oil, the base oil holding the larger
\* weight
C3_Witness ==
    /\ gen_status = "returned"
    /\ Len(selected_oils) = 2
    /\ NoTargets
    /\ selected_oils[1] \in OIL_CATEGORIES.hard
    /\ selected_oils[2] \in OIL_CATEGORIES.base
    /\ recipe[selected_oils[2]] > recipe[selected_oils[1]]

\* C4: three oils, no targets: with a base and a hard oil selected, 50% to
\* the first selected base oil, 30% to the first selected hard oil and 20% to
\* the remaining oil; otherwise a third of the total to each (weights
\* rounded to 2 decimals).
C4_ThreeOilSplit ==
    (gen_status = "returned" /\ Len(selected_oils) = 3 /\ NoTargets) =>
        /\ DOMAIN recipe = Range(selected_oils)
        /\ IF SelectedIn("base") # {} /\ SelectedIn("hard") # {}
           THEN \A o \in Range(selected_oils) :
                   recipe[o] \in Round2(RMul(RequestedOz,
                                   IF o = FirstIn("base") THEN Rat(50, 100)
                                   ELSE IF o = FirstIn("hard") THEN Rat(30, 100)
                                   ELSE Rat(20, 100)))
           ELSE \A o \in Range(selected_oils) :
                   recipe[o] \in Round2(RDiv(RequestedOz, Num(3)))

\* three oils with the base oil selected last and the remaining oil, a
\* second hard oil, in the middle
C4_Witness ==
    /\ gen_status = "returned"
    /\ Len(selected_oils) = 3
    /\ NoTargets
    /\ selected_oils[1] \in OIL_CATEGORIES.hard
    /\ selected_oils[2] \in OIL_CATEGORIES.hard
    /\ selected_oils[3] \in OIL_CATEGORIES.base
    /\ recipe[selected_oils[2]] < recipe[selected_oils[1]]

\* C5: an empty selection returns the empty mapping and raises no error,
\* for any total mass, with or without targets.
C5_EmptySelection ==
    (gen_status # "pending" /\ selected_oils = << >>) =>
        (gen_status = "returned" /\ recipe = EmptyDict)

\* the call with an empty selection and targets supplied has returned
C5_Witness ==
    /\ gen_status = "returned"
    /\ selected_oils = << >>
    /\ ~NoTargets

\* the mass the default schedule gives each category: 45% to base, then
\* min(30%, remaining) to hard, min(18%, remaining) to the conditioning fats,
\* min(7%, remaining) to super_fat and min(5%, remaining) to specialty, a
\* category without a selected oil taking nothing
ScheduleTotals ==
    LET T == RequestedOz
        Take(category, pct, remaining) ==
            IF SelectedIn(category) = {} THEN Zero
            ELSE RMin(RMul(T, Rat(pct, 100)), remaining)
        b == IF SelectedIn("base") = {} THEN Zero ELSE RMul(T, Rat(45, 100))
        h == Take("hard", 30, RSub(T, b))
        c == Take("conditioning", 18, RSub(RSub(T, b), h))
        u == Take("super_fat", 7, RSub(RSub(RSub(T, b), h), c))
        p == Take("specialty", 5, RSub(RSub(RSub(RSub(T, b), h), c), u))
    IN  [base |-> b, hard |-> h, conditioning |-> c, super_fat |-> u,
         specialty |-> p]

\* what the schedule leaves over
ScheduleLeftover ==
    LET t == ScheduleTotals
    IN  RSub(RequestedOz, RAdd(t.base, RAdd(t.hard, RAdd(t.conditioning,
                               RAdd(t.super_fat, t.specialty)))))

CategoryOf(o) == CHOOSE c \in DOMAIN OIL_CATEGORIES : o \in OIL_CATEGORIES[c]

\* the weight of oil o: an equal part of its category's mass, and an equal
\* part of the leftover when the leftover exceeds threshold
ScheduleWeight(o, threshold) ==
    RAdd(RDiv(ScheduleTotals[CategoryOf(o)],
              Num(Cardinality(SelectedIn(CategoryOf(o))))),
         IF RLess(threshold, ScheduleLeftover)
         THEN RDiv(ScheduleLeftover, Num(Len(selected_oils)))
         ELSE Zero)

Targeted == gen_status = "returned" /\ selected_oils # << >> /\ ~NoTargets

\* the categories of generate_targeted_recipe that have a selected oil
PresentCategories ==
    {c \in DOMAIN percentages.raw :
        \/ c = "base" /\ SelectedIn("base") # {}
        \/ c = "coconut" /\ "Coconut Oil" \in Range(selected_oils)
        \/ c = "hard" /\ SelectedIn("hard") \ {"Coconut Oil"} # {}
        \/ c = "animal" /\ SelectedIn("conditioning") # {}
        \/ c = "castor" /\ SelectedIn("super_fat") # {}
        \/ c = "specialty" /\ SelectedIn("specialty") # {}}

\* the documented window of each category, in percent
Windows ==
    [base |-> << 30, 60 >>, coconut |-> << 15, 50 >>, hard |-> << 10, 25 >>,
     animal |-> << 10, 30 >>, castor |-> << 5, 10 >>, specialty |-> << 3, 5 >>]

\* C7: for any target values, also outside the property ranges, the
\* percentage first computed for each present category lies in its window.
C7_PercentagesInWindows ==
    Targeted =>
        \A c \in PresentCategories :
            /\ RLeq(Rat(Windows[c][1], 100), percentages.raw[c])
            /\ RLeq(percentages.raw[c], Rat(Windows[c][2], 100))

\* the value of a target, the default of lines 171-175 when it is not given
TargetValue(k) ==
    Get(target_props, k,
        [hardness |-> 40, cleansing |-> 15, conditioning |-> 55,
         bubbly |-> 25, creamy |-> 30][k])

\* the normalised factor of a cleansing or bubbly target value
LatherFactor(k, v) ==
    IF k = "cleansing" THEN Rat(v - 12, 10) ELSE Rat(v - 14, 32)

OtherLather(k) == IF k = "cleansing" THEN "bubbly" ELSE "cleansing"

\* Coconut Oil's share as first computed when target k is set to v
CoconutShareWith(k, v) ==
    RawPercentages(selected_oils, Put(target_props, k, v)).coconut

\* Coconut Oil's share is 0.15 + 0.35 x max(cleansing_factor, bubbly_factor)
\* and no other target changes it
CoconutShareByMax ==
    /\ percentages.raw.coconut =
          RAdd(Rat(15, 100),
               RMul(Rat(35, 100),
                    RMax(LatherFactor("cleansing", TargetValue("cleansing")),
                         LatherFactor("bubbly", TargetValue("bubbly")))))
    /\ \A k \in {"hardness", "conditioning", "creamy"} :
          \A v \in {TargetValue(k) - 7, TargetValue(k) + 7} :
              CoconutShareWith(k, v) = percentages.raw.coconut

\* C8 as stated: with Coconut Oil selected its share is
\* 0.15 + 0.35 x max(cleansing_factor, bubbly_factor), no other target
\* changes it, and raising the lower of the two targets while it stays
\* below the other target does not change it.
C8_LowerTargetRaised ==
    (Targeted /\ "Coconut Oil" \in Range(selected_oils)) =>
        /\ CoconutShareByMax
        /\ \A k \in {"cleansing", "bubbly"} : \A step \in 1..3 :
              (TargetValue(k) + step < TargetValue(OtherLather(k))) =>
                  CoconutShareWith(k, TargetValue(k) + step)
                      = percentages.raw.coconut

\* C8 amended: with Coconut Oil selected its share as first computed, before
\* the compensation for missing base oils, is
\* 0.15 + 0.35 x max(cleansing_factor, bubbly_factor), no other target
\* changes it, and raising the target with the lower normalised factor
\* while that factor stays below the other factor does not change it.
C8_LowerFactorRaised ==
    (Targeted /\ "Coconut Oil" \in Range(selected_oils)) =>
        /\ CoconutShareByMax
        /\ \A k \in {"cleansing", "bubbly"} : \A step \in 1..3 :
              RLess(LatherFactor(k, TargetValue(k) + step),
                    LatherFactor(OtherLather(k),
                                 TargetValue(OtherLather(k)))) =>
                  CoconutShareWith(k, TargetValue(k) + step)
                      = percentages.raw.coconut

\* Coconut Oil selected with a bubbly factor below the cleansing factor and
\* staying below it when the bubbly target is raised
C8_Witness ==
    /\ Targeted
    /\ "Coconut Oil" \in Range(selected_oils)
    /\ RLess(LatherFactor("bubbly", TargetValue("bubbly") + 3),
             LatherFactor("cleansing", TargetValue("cleansing")))
    /\ percentages.raw.coconut = Rat(50, 100)

\* C9: with no base oil selected the animal-fat share is multiplied by 1.8,
\* the share of the hard oils other than coconut by 1.5 and the Coconut Oil
\* share by 0.6 before the normalization; with a base oil selected none of
\* the three is rescaled.
C9_Compensation ==
    Targeted =>
        LET raw == percentages.raw
            adjusted == percentages.adjusted
        IN  /\ adjusted.base = raw.base
            /\ adjusted.castor = raw.castor
            /\ adjusted.specialty = raw.specialty
            /\ IF SelectedIn("base") = {}
               THEN /\ adjusted.animal = RMul(raw.animal, Rat(18, 10))
                    /\ adjusted.hard = RMul(raw.hard, Rat(15, 10))
                    /\ adjusted.coconut = RMul(raw.coconut, Rat(6, 10))
               ELSE /\ adjusted.animal = raw.animal
                    /\ adjusted.hard = raw.hard
                    /\ adjusted.coconut = raw.coconut

\* no base oil, and Coconut Oil, another hard oil and an animal fat selected
C9_Witness ==
    /\ Targeted
    /\ SelectedIn("base") = {}
    /\ {"Coconut Oil", "Palm Oil", "Lard"} \subseteq Range(selected_oils)
    /\ RLess(percentages.raw.animal, percentages.adjusted.animal)
    /\ RLess(percentages.adjusted.coconut, percentages.raw.coconut)

(***************************************************************************)
(* Properties of the blend calculator                                      *)
(***************************************************************************)
\* sum(weight_i x property_i) / sum(weight_i) over a mapping of known oils
WeightedAverage(prop) ==
    Rat(ISum([o \in DOMAIN oil_weights |->
                 oil_weights[o] * oils_db[o].properties[prop]]),
        ISum(oil_weights))

\* C10: for a non-empty weight mapping of oils that are all in the database,
\* every property returned is sum(weight_i x property_i) / sum(weight_i)
\* rounded to 1 decimal, and every property is returned when the weights do
\* not sum to zero.
C10_WeightedAverage ==
    (/\ prop_status = "returned"
     /\ DOMAIN oil_weights # {}
     /\ DOMAIN oil_weights \subseteq DOMAIN oils_db) =>
        /\ ISum(oil_weights) # 0 => DOMAIN properties = PropertyNames
        /\ \A prop \in DOMAIN properties :
              properties[prop] \in Round1(WeightedAverage(prop))

\* properties returned for three known oils of different weights, the
\* hardness not a whole number
C10_Witness ==
    /\ prop_status = "returned"
    /\ DOMAIN oil_weights = {"Olive Oil", "Coconut Oil", "Palm Oil"}
    /\ oil_weights["Olive Oil"] < oil_weights["Coconut Oil"]
    /\ oil_weights["Coconut Oil"] < oil_weights["Palm Oil"]
    /\ DOMAIN properties = PropertyNames
    /\ properties.hardness % 10 # 0

\* the names of the weight mapping that are not in the oils database
UnknownOils == DOMAIN oil_weights \ DOMAIN oils_db

Finished(status) == status \in {"returned", "raised"}

\* C11: for a weight mapping containing a name absent from the oils
\* database, calculate_lye_amount raises and returns no value, while
\* calculate_soap_properties and calculate_fatty_acid_profile return a
\* result without raising.
C11_UnknownOilAsymmetry ==
    UnknownOils # {} =>
        /\ Finished(lye_status) => lye_status = "raised"
        /\ Finished(prop_status) => prop_status = "returned"
        /\ Finished(fa_status) => fa_status = "returned"

\* on one mapping of a known and an unknown oil the lye calculation has
\* raised and the properties were returned
C11_Witness ==
    /\ UnknownOils # {}
    /\ "Olive Oil" \in DOMAIN oil_weights
    /\ oil_weights["Olive Oil"] > 0
    /\ lye_status = "raised"
    /\ prop_status = "returned"
    /\ DOMAIN properties = PropertyNames

\* the weight mapping without the names that are not in the database
KnownWeights == [o \in DOMAIN oil_weights \cap DOMAIN oils_db |-> oil_weights[o]]

\* C12: with a name absent from the database in the mapping,
\* calculate_soap_properties and calculate_fatty_acid_profile return what
\* they return for the mapping with that name removed: the unknown weight is
\* in neither the numerator nor the denominator of the weighted average.
C12_UnknownOilExcluded ==
    UnknownOils # {} =>
        /\ prop_status = "returned" =>
              \E outcome \in calculate_soap_properties(KnownWeights) :
                  properties = outcome.value
        /\ fa_status = "returned" =>
              \E outcome \in calculate_fatty_acid_profile(KnownWeights) :
                  fatty_acids = outcome.value

\* the saponification value the claim names for an oil
SapOf(o) ==
    IF lye_type = "NaOH" THEN oils_db[o].sap_naoh ELSE oils_db[o].sap_koh

\* sum(weight_i x sap_i) x (1 - superfat_percent / 100)
BaseLye ==
    RMul(RSum([o \in DOMAIN oil_weights |->
                  RMul(Num(oil_weights[o]), SapOf(o))]),
         RDiv(RSub(Num(100), superfat_percent), Num(100)))

\* C13: for a mapping of known oils the base lye amount returned is
\* sum(weight_i x sap_i) x (1 - superfat_percent / 100) rounded to 2
\* decimals, sap_i being sap_naoh for lye type 'NaOH' and sap_koh for every
\* other lye type; the adjustment returned is the one returned at superfat 0.
C13_BaseLyeAmount ==
    (lye_status = "returned" /\ UnknownOils = {}) =>
        /\ lye[1] \in Round2(BaseLye)
        /\ \E outcome \in calculate_lye_amount(oil_weights, Zero, modifiers,
                                               lye_type) :
              outcome.value[2] = lye[2]

\* a lye amount returned for a lye type other than 'NaOH' and 'KOH', a
\* superfat that is not 0 and three oils
C13_Witness ==
    /\ lye_status = "returned"
    /\ lye_type \notin {"NaOH", "KOH"}
    /\ superfat_percent # Zero
    /\ DOMAIN oil_weights = DOMAIN oils_db
    /\ \A o \in DOMAIN oil_weights : oil_weights[o] > 0
    /\ lye[1] > 0
    /\ lye[2] = 0

\* the weight mapping with every weight doubled
DoubledWeights == [o \in DOMAIN oil_weights |-> 2 * oil_weights[o]]

\* the base lye amounts calculate_lye_amount can return for the doubled
\* mapping, the other arguments unchanged
DoubledLye ==
    {outcome.value[1] :
        outcome \in calculate_lye_amount(DoubledWeights, superfat_percent,
                                         modifiers, lye_type)}

\* C14 as stated: at a fixed superfat percent and lye type the base lye
\* amount returned for the doubled mapping is twice the amount returned.
C14_DoublingDoublesExactly ==
    lye_status = "returned" => \E l \in DoubledLye : l = 2 * lye[1]

\* C14 amended: the base lye amount returned for the doubled mapping is
\* twice the amount returned within one unit of the second decimal, both
\* amounts being rounded to 2 decimals.
C14_DoublingWithinRounding ==
    lye_status = "returned" => \A l \in DoubledLye : Abs(l - 2 * lye[1]) <= 1

\* a lye amount returned at a superfat that is not 0 whose double is not the
\* amount of the doubled mapping
C14_Witness ==
    /\ lye_status = "returned"
    /\ superfat_percent # Zero
    /\ lye[1] > 0
    /\ \A l \in DoubledLye : l # 2 * lye[1]

\* value, in hundredths, is x rounded to 2 decimals, x = numerator / c, c > 0
RoundedQuotient(value, numerator, c) ==
    RLeq(RAbs(RSub(RMul(Rat(value, 100), c), numerator)),
         RMul(Rat(1, 200), c))

\* the concentration lies strictly between 0 and 100
ValidConcentration ==
    RLess(Zero, lye_concentration) /\ RLess(lye_concentration, Num(100))

\* the amount returned is lye_weight x (100 - concentration) / concentration
\* rounded to 2 decimals
WaterByFormula ==
    RoundedQuotient(water,
                    RMul(lye_weight, RSub(Num(100), lye_concentration)),
                    lye_concentration)

\* C15 as stated: for a concentration strictly between 0 and 100 the water
\* amount returned is lye_weight x (100 - concentration) / concentration
\* rounded to 2 decimals, 202.02 for lye 100 at concentration 33.
C15_WaterAmount20202 ==
    (water_status = "returned" /\ ValidConcentration) =>
        /\ WaterByFormula
        /\ (lye_weight = Num(100) /\ lye_concentration = Num(33)) =>
              water = 20202

\* C15 amended: as stated, but 203.03 for lye 100 at concentration 33.
C15_WaterAmount20303 ==
    (water_status = "returned" /\ ValidConcentration) =>
        /\ WaterByFormula
        /\ (lye_weight = Num(100) /\ lye_concentration = Num(33)) =>
              water = 20303

\* the water for lye 100 at concentration 33 was returned
C15_Witness ==
    /\ water_status = "returned"
    /\ lye_weight = Num(100)
    /\ lye_concentration = Num(33)
    /\ water > 0

\* the supplied modifiers that are in the database and define a factor
ModifiersWithFactor ==
    {m \in DOMAIN modifiers \cap DOMAIN modifiers_db :
        "lye_adjustment_factor" \in DOMAIN modifiers_db[m]}

\* C16: the lye adjustment returned is the sum of
\* amount x lye_adjustment_factor over the supplied modifiers that are in the
\* database and define a factor, rounded to 2 decimals, whatever the oil
\* weights; the other modifiers contribute 0.
C16_LyeAdjustment ==
    lye_status = "returned" =>
        lye[2] \in Round2(RSum([m \in ModifiersWithFactor |->
                                   RMul(modifiers[m],
                                        modifiers_db[m].lye_adjustment_factor)]))

\* an adjustment returned for Citric Acid next to a modifier without a
\* factor and a modifier that is not in the database, for oils of some weight
C16_Witness ==
    /\ lye_status = "returned"
    /\ ModifiersWithFactor # {}
    /\ \E m \in DOMAIN modifiers \cap DOMAIN modifiers_db :
          m \notin ModifiersWithFactor /\ RLess(Zero, modifiers[m])
    /\ \E m \in DOMAIN modifiers : m \notin DOMAIN modifiers_db
    /\ ISum(oil_weights) > 0
    /\ lye[2] > 0

(***************************************************************************)
(* Properties of the modifier engine                                       *)
(***************************************************************************)
\* the percentage the call works with: the one given, or the modifier's
\* typical usage
UsedPercent ==
    IF usage_percent = << >>
    THEN modifiers_db[modifier_name].typical_usage_percent
    ELSE usage_percent[1]

\* the amount is x rounded to 2 decimals
RoundedTo2(amount, x) ==
    /\ 100 % amount.d = 0
    /\ RLeq(RAbs(RSub(amount, x)), Rat(1, 200))

\* C17: for a modifier whose usage_rate_type is percent_of_oils the amount
\* returned is total_oil_weight x percent / 100 as a mass rounded to 2
\* decimals, percent being the usage_percent given or else the modifier's
\* typical_usage_percent; for every other usage_rate_type the amount
\* returned is the percent value itself.
C17_ModifierAmount ==
    (/\ amount_status = "returned"
     /\ modifier_name \in DOMAIN modifiers_db
     /\ "usage_rate_type" \in DOMAIN modifiers_db[modifier_name]) =>
        IF modifiers_db[modifier_name].usage_rate_type = "percent_of_oils"
        THEN RoundedTo2(modifier_amount,
                        RDiv(RMul(total_oil_weight, UsedPercent), Num(100)))
        ELSE modifier_amount = UsedPercent

\* an amount returned for a percent_of_oils modifier and a percentage given
\* that is not the typical one, the rounding changing the amount
C17_Witness ==
    /\ amount_status = "returned"
    /\ modifier_name = "Sodium Lactate"
    /\ usage_percent = << Rat(5, 2) >>
    /\ RLess(Zero, modifier_amount)
    /\ modifier_amount # RDiv(RMul(total_oil_weight, Rat(5, 2)), Num(100))

\* the supplied modifiers with an amount > 0 and an entry in the effects
\* table
ActiveEffects ==
    {m \in DOMAIN modifiers \cap DOMAIN modifier_effects :
        RLess(Zero, modifiers[m])}

\* the sum of the boosts of the active modifiers on a property
TotalBoost(prop) ==
    ISum([m \in ActiveEffects |-> Get(modifier_effects[m], prop, 0)])

\* C18: apply_modifier_effects returns the base properties with, for each
\* modifier of amount > 0 that is in the effects table, its boost added to
\* each property it affects that is present; the amounts themselves, the
\* modifiers of amount 0 and those without an entry change nothing, and the
\* mapping passed as base_properties is as it was.
C18_ModifierEffects ==
    [][(effects_status = "pending" /\ effects_status' = "returned") =>
          /\ adjusted_props' = [prop \in DOMAIN base_properties |->
                                   base_properties[prop] + 10 * TotalBoost(prop)]
          /\ base_properties' = base_properties]_vars

\* effects returned for two active modifiers next to one of amount 0, the
\* hardness boosted by both
C18_Witness ==
    /\ effects_status = "returned"
    /\ Cardinality(ActiveEffects) = 2
    /\ \E m \in DOMAIN modifiers \cap DOMAIN modifier_effects :
          modifiers[m] = Zero
    /\ DOMAIN base_properties = PropertyNames
    /\ adjusted_props.hardness = base_properties.hardness + 30
    /\ adjusted_props.bubbly = base_properties.bubbly

(***************************************************************************)
(* Properties of the error handling                                        *)
(***************************************************************************)
\* C19: an invalid numeric parameter ends in an error instead of a value:
\* calculate_lye_amount with a negative superfat percent,
\* calculate_water_amount with a concentration outside the open range
\* 0-100, and calculate_fragrance_amount with a negative percent.
C19_InvalidParameterRejected ==
    /\ (Finished(lye_status) /\ RLess(superfat_percent, Zero)) =>
          lye_status = "raised"
    /\ (Finished(water_status) /\ ~ValidConcentration) =>
          water_status = "raised"
    /\ (Finished(fragrance_status) /\ RLess(fragrance_percent, Zero)) =>
          fragrance_status = "raised"

\* the weight mapping is empty or its weights sum to zero
NothingWeighed == ISum(oil_weights) = 0

\* C20 as stated: on an empty weight mapping, or one whose weights sum to
\* zero, calculate_lye_amount, calculate_soap_properties and
\* calculate_fatty_acid_profile end in an error and return no result.
C20_EmptySelectionError ==
    NothingWeighed =>
        /\ Finished(lye_status) => lye_status = "raised"
        /\ Finished(prop_status) => prop_status = "raised"
        /\ Finished(fa_status) => fa_status = "raised"

\* C20 amended: on such a mapping no error is raised for the lack of
\* weight: calculate_soap_properties and calculate_fatty_acid_profile return
\* the empty mapping, and calculate_lye_amount returns a base lye amount of
\* 0 unless a name of the mapping is not in the database.
C20_EmptyMappingReturned ==
    NothingWeighed =>
        /\ Finished(prop_status) =>
              (prop_status = "returned" /\ properties = EmptyDict)
        /\ Finished(fa_status) =>
              (fa_status = "returned" /\ fatty_acids = EmptyDict)
        /\ (Finished(lye_status) /\ UnknownOils = {}) =>
              (lye_status = "returned" /\ lye[1] = 0)

\* two known oils of weight 0: the lye amount 0 and the empty properties
\* were returned
C20_Witness ==
    /\ Cardinality(DOMAIN oil_weights) = 2
    /\ UnknownOils = {}
    /\ NothingWeighed
    /\ lye_status = "returned"
    /\ lye[1] = 0
    /\ prop_status = "returned"
    /\ properties = EmptyDict

(***************************************************************************)
(* Properties of the modifier panels                                       *)
(***************************************************************************)
InSession == front_end \in {"main_auto", "main"}

\* the oils a handler of the running front-end calculates with
SessionOils ==
    IF front_end = "main_auto" THEN current_recipe_oils
    ELSE PositiveWeights(oil_entries)

\* the modifiers a handler of the running front-end collects when the amount
\* fields hold the texts amounts
SessionModifiers(amounts) ==
    IF front_end = "main_auto"
    THEN CollectModifiers(modifier_vars, amounts, PanelModifiers)
    ELSE EnabledModifiers(modifier_vars, amounts, PanelModifiers,
                          Num(ISum(SessionOils)))

\* what the modifiers contribute to the next calculation, save or export of
\* the running front-end when the amount fields hold the texts amounts: the
\* lye adjustment before rounding and, in main_auto.py, the boosts of the
\* properties
Contribution(amounts) ==
    LET selected == SessionModifiers(amounts)
    IN  [lye_adjustment |-> LyeAdjustment(selected, DOMAIN selected),
         effects |-> IF front_end = "main_auto"
                     THEN ApplyEffects([prop \in PropertyNames |-> 0],
                                       selected, DOMAIN selected)
                     ELSE [prop \in PropertyNames |-> 0]]

\* what a save of the running front-end calculates when the amount fields
\* hold the texts amounts
NextCalculation(amounts) ==
    CalculatedValues(SessionOils, parameters.superfat,
                     parameters.lye_concentration,
                     parameters.fragrance_percent, SessionModifiers(amounts),
                     front_end = "main_auto")

\* texts left in the amount field of an unchecked modifier
LeftoverTexts == {<< >>, << Num(7) >>}

\* the amount fields with the fields of the unchecked modifiers emptied
ActiveAmounts ==
    [m \in DOMAIN modifier_amount_vars |->
        IF modifier_vars[m] THEN modifier_amount_vars[m] ELSE << >>]

\* the calculated values a recipe holds
ValuesOf(r) ==
    [lye_amount |-> r.lye_amount, lye_adjustment |-> r.lye_adjustment,
     water_amount |-> r.water_amount,
     fragrance_amount |-> r.fragrance_amount, properties |-> r.properties,
     fatty_acids |-> r.fatty_acids]

\* a step of a save handler that adds a recipe
Saves == InSession /\ Len(recipes') = Len(recipes) + 1

\* C21: in every state of a session of either front-end, what the modifiers
\* contribute to the lye adjustment and to the properties of the next
\* calculation, save or export does not depend on the text in the amount
\* field of an unchecked modifier, and a recipe a save adds holds only
\* checked modifiers and the values calculated with the fields of the
\* unchecked modifiers emptied.
C21_InactiveContributesNothing ==
    [][/\ InSession =>
            LET contributed == Contribution(modifier_amount_vars)
            IN  \A m \in PanelModifiers : \A text \in LeftoverTexts :
                    (~modifier_vars[m] /\ text # modifier_amount_vars[m]) =>
                        Contribution([modifier_amount_vars EXCEPT ![m] = text])
                            = contributed
       /\ Saves =>
            LET saved == recipes'[Len(recipes')]
            IN  /\ \A m \in DOMAIN saved.modifiers : modifier_vars[m]
                /\ \E outcome \in NextCalculation(ActiveAmounts) :
                      ~outcome.raised /\ ValuesOf(saved) = outcome.value]_vars

\* a recipe saved by main_auto.py with sugar alone, citric acid being
\* unchecked with an amount left in its field
C21_Witness ==
    /\ front_end = "main_auto"
    /\ Len(recipes) = 1
    /\ DOMAIN recipes[1].modifiers = {"Sugar"}
    /\ recipes[1].lye_adjustment = 0
    /\ modifier_vars["Sugar"]
    /\ modifier_amount_vars["Sugar"] = << recipes[1].modifiers["Sugar"] >>
    /\ ~modifier_vars["Citric Acid"]
    /\ modifier_amount_vars["Citric Acid"] = << Num(10) >>

\* the amount an amount field stands for: 0 for an empty field
AmountOf(text) == FloatOrZero(text)

\* C22 as stated: in every state of a session of either front-end, an
\* unchecked modifier has the amount 0.
C22_InactiveAmountZero ==
    InSession =>
        \A m \in PanelModifiers :
            ~modifier_vars[m] => AmountOf(modifier_amount_vars[m]) = Zero

\* C22: in every state of a session of main.py an unchecked modifier has the
\* amount "0", and a step of main_auto.py that unchecks a modifier leaves the
\* text of its amount field as it is.
C22_ManualResetsAutoKeeps ==
    [][/\ front_end = "main" =>
            \A m \in PanelModifiers :
                /\ ~modifier_vars[m] => modifier_amount_vars[m] = << Zero >>
                /\ ~modifier_vars'[m] => modifier_amount_vars'[m] = << Zero >>
       /\ front_end = "main_auto" =>
            \A m \in PanelModifiers :
                (modifier_vars[m] /\ ~modifier_vars'[m]) =>
                    modifier_amount_vars'[m] = modifier_amount_vars[m]]_vars

\* main.py has saved a recipe with citric acid, which is unchecked since and
\* at the amount "0"
C22_Witness ==
    /\ front_end = "main"
    /\ Len(recipes) = 1
    /\ "Citric Acid" \in DOMAIN recipes[1].modifiers
    /\ recipes[1].modifiers["Citric Acid"] # Zero
    /\ ~modifier_vars["Citric Acid"]
    /\ modifier_amount_vars["Citric Acid"] = << Zero >>

\* the texts of the default amount of a modifier for the recipe of the
\* session, or for 453.592 g without a recipe, written with one decimal
DefaultAmounts(m) ==
    FormatOneDecimal(
        RDiv(RMul(IF current_recipe_oils # EmptyDict
                  THEN Num(ISum(current_recipe_oils))
                  ELSE typical_oils_g,
                  Get(modifiers_db[m], "typical_usage_percent", Num(1))),
             Num(100)))

\* a step of main_auto.py that checks the modifier m
Activates(m) ==
    front_end = "main_auto" /\ ~modifier_vars[m] /\ modifier_vars'[m]

\* C23 as stated, the amount being written with one decimal: every step of
\* main_auto.py that checks a modifier sets its amount to the default amount.
C23_ActivationSetsDefault ==
    [][\A m \in PanelModifiers :
          Activates(m) => modifier_amount_vars'[m] \in DefaultAmounts(m)]_vars

\* C23: a step of main_auto.py that checks a modifier sets its amount to the
\* default amount when the amount field is empty, and leaves the text of a
\* field that is not empty.
C23_ActivationFillsEmptyField ==
    [][\A m \in PanelModifiers :
          Activates(m) =>
              IF modifier_amount_vars[m] = << >>
              THEN modifier_amount_vars'[m] \in DefaultAmounts(m)
              ELSE modifier_amount_vars'[m] = modifier_amount_vars[m]]_vars

\* citric acid is checked with the amount 4.5 of a session without a recipe
\* while a recipe of 500 g is known: it was checked before the recipe was
\* generated, unchecked, and checked again
C23_Witness ==
    /\ front_end = "main_auto"
    /\ current_recipe_oils # EmptyDict
    /\ modifier_vars["Citric Acid"]
    /\ modifier_amount_vars["Citric Acid"] = << Rat(45, 10) >>

\* the lye adjustments calculate_lye_amount may return for the request of
\* the state with the modifiers selected
Adjustments(selected) ==
    {outcome.value[2] :
        outcome \in {o \in calculate_lye_amount(oil_weights, superfat_percent,
                                                selected, lye_type) :
                        ~o.raised}}

Returns(op) ==
    /\ manager_status = "pending"
    /\ request.op = op
    /\ manager_status' = "returned"

\* the fields named by C25
RoundTripFields ==
    {"lye_amount", "lye_adjustment", "water_amount", "fragrance_amount",
     "properties", "fatty_acids", "oils", "modifiers", "superfat",
     "lye_concentration", "fragrance_percent", "created_date",
     "modified_date"}

\* C25: when load_recipes reads the file save_recipes wrote for the recipes,
\* every recipe read has the value of the recipe written in each calculated
\* field, in oils, modifiers, the parameters and both timestamps.
C25_RoundTrip ==
    [][Returns("load_recipes") =>
          /\ recipes_file = save_recipes(recipes)
          /\ Len(recipes') = Len(recipes)
          /\ \A i \in DOMAIN recipes : \A field \in RoundTripFields :
                recipes'[i][field] = recipes[i][field]]_vars

\* recipes read back, among them one with a lye adjustment and a
\* modification after its creation, both before the reading of the clock
C25_Witness ==
    /\ manager_status = "returned"
    /\ request.op = "load_recipes"
    /\ \E i \in DOMAIN recipes :
          /\ recipes[i].lye_adjustment > 0
          /\ recipes[i].created_date < recipes[i].modified_date
          /\ recipes[i].modified_date < clock

\* the indexes of the entries of a list of recipes, counted from 0
IndexesOf(recipes_list) == 0 .. (Len(recipes_list) - 1)

\* C26: a step in which update_recipe(i, r) returns for an index i of the
\* collection leaves at i an entry whose modification timestamp is the clock
\* reading of the call and whose creation timestamp is the one the entry at i
\* had before, and leaves the length and every other entry as they were.
C26_UpdateKeepsCreation ==
    [][(Returns("update_recipe") /\ request.index \in IndexesOf(recipes)) =>
          LET i == request.index + 1
          IN  /\ recipes'[i].modified_date = clock'
              /\ recipes'[i].modified_date > recipes[i].modified_date
              /\ recipes'[i].created_date = recipes[i].created_date
              /\ Len(recipes') = Len(recipes)
              /\ \A j \in DOMAIN recipes : j # i => recipes'[j] = recipes[j]]_vars

(***************************************************************************)
(* Properties of the generated mapping                                     *)
(***************************************************************************)
\* C27: when generate_recipe has returned for a selection that is not empty
\* and a positive total, with targets or without, the mapping has exactly
\* the selected oils as keys and every weight is above 0.
C27_SelectedKeysPositiveWeights ==
    (/\ gen_status = "returned"
     /\ selected_oils # << >>
     /\ RLess(Zero, total_weight_lbs)) =>
        /\ DOMAIN recipe = Range(selected_oils)
        /\ \A oil \in DOMAIN recipe : recipe[oil] > 0

(***************************************************************************)
(* Properties of the sessions of the front-ends                            *)
(***************************************************************************)
\* C28: in a session of main_auto.py, a step that adds a recipe to the
\* collection starts with a generated recipe in current_recipe_oils and
\* saves its oils; current_recipe_oils becomes a recipe only in a step that
\* shows the generated recipe and adds nothing; and a step that resets the
\* parameters or empties a shown result, as clear_all does, leaves
\* current_recipe_oils empty, so that nothing is saved before the first
\* recipe is generated nor after a clear_all until the next one is.
C28_SaveOnlyGeneratedRecipe ==
    [][front_end = "main_auto" =>
          /\ Len(recipes') # Len(recipes) =>
                /\ current_recipe_oils # EmptyDict
                /\ current_recipe_oils \in GeneratedRecipes
                /\ recipes' = Append(recipes, recipes'[Len(recipes')])
                /\ recipes'[Len(recipes')].oils = current_recipe_oils
          /\ current_recipe_oils = EmptyDict =>
                /\ recipes' = recipes
                /\ recipes_file' = recipes_file
                /\ current_recipe_oils' # EmptyDict =>
                      /\ current_recipe_oils' \in GeneratedRecipes
                      /\ parameters.lye_concentration # Zero
          /\ (results_text = "shown" /\ results_text' = "") =>
                current_recipe_oils' = EmptyDict]_vars

\* a recipe was generated and saved, and the session cleared since
C28_Witness ==
    /\ front_end = "main_auto"
    /\ Len(recipes) = 1
    /\ recipes[1].oils \in GeneratedRecipes
    /\ recipes_file = save_recipes(recipes)
    /\ current_recipe_oils = EmptyDict
    /\ results_text = ""

\* C29: every recipe saved in a session of either front-end holds the values
\* save_recipe of main_auto.py calculates for the oils, the parameters and
\* the modifiers of the recipe, the boosts of the modifiers in the
\* properties among them.
C29_SameDerivedFields ==
    InSession =>
        \A i \in DOMAIN recipes :
            LET r == recipes[i]
            IN  \E outcome \in CalculatedValues(r.oils, r.superfat,
                                                r.lye_concentration,
                                                r.fragrance_percent,
                                                r.modifiers, TRUE) :
                    ~outcome.raised /\ ValuesOf(r) = outcome.value

(***************************************************************************)
(* Properties of the index tests of RecipeManager                          *)
(***************************************************************************)
\* C30: a step in which update_recipe, delete_recipe or get_recipe returns
\* for an index outside 0..len-1 leaves the collection and the file as they
\* were and finds None; a step in which delete_recipe returns for an index
\* of the collection removes the entry at the index, keeps the others in
\* their order and writes the file.
C30_InvalidIndexNoEffect ==
    [][/\ (/\ \E op \in {"update_recipe", "delete_recipe", "get_recipe"} :
                  Returns(op)
           /\ request.index \notin IndexesOf(recipes)) =>
              /\ recipes' = recipes
              /\ recipes_file' = recipes_file
              /\ found' = << >>
       /\ (Returns("delete_recipe") /\ request.index \in IndexesOf(recipes)) =>
              /\ Len(recipes') = Len(recipes) - 1
              /\ \A j \in DOMAIN recipes' :
                    recipes'[j] = recipes[IF j <= request.index THEN j
                                          ELSE j + 1]
              /\ recipes_file' = save_recipes(recipes')]_vars

\* delete_recipe(-1) has returned on a collection of two recipes, both still
\* there and in the file
C30_Witness ==
    /\ manager_status = "returned"
    /\ request.op = "delete_recipe"
    /\ request.index = 0 - 1
    /\ Len(recipes) = 2
    /\ recipes_file = save_recipes(recipes)

====
